---- MODULE Spec2Model ----
(***************************************************************************)
(* Model of the experiment lifecycle engine of exp (src/main/main.go):     *)
(* job submission, the status poller of monitorExperiment with the         *)
(* two-tier status lookup of queryJobStatus, and the artifact sync that    *)
(* follows a terminal status.                                              *)
(*                                                                         *)
(* Go strings are modelled as sequences of one-character strings, so that  *)
(* strings.TrimSpace, strings.ToUpper, strings.Split, strings.Index and    *)
(* strings.Trim are computed as the code computes them.                    *)
(*                                                                         *)
(* Every remote command and every store update is a blocking call whose    *)
(* outcome (exit status and output, success or error) is chosen by the     *)
(* environment.  A store update that returns an error leaves the row as    *)
(* it was.                                                                 *)
(***************************************************************************)
EXTENDS Integers, Sequences, FiniteSets, TLC

\* ------------------------------------------------------------------------
\* Bounds of the model
\* ------------------------------------------------------------------------

\* The clock counts seconds; a run starts at StartTime and the clock
\* saturates at MaxNow.
StartTime == 1000

MaxNow == 1030

\* Consecutive failed status queries are counted up to MaxFails.
MaxFails == 2

\* ------------------------------------------------------------------------
\* Strings
\* ------------------------------------------------------------------------

LowerCase ==
  <<"a", "b", "c", "d", "e", "f", "g", "h", "i", "j", "k", "l", "m",
    "n", "o", "p", "q", "r", "s", "t", "u", "v", "w", "x", "y", "z">>

UpperCase ==
  <<"A", "B", "C", "D", "E", "F", "G", "H", "I", "J", "K", "L", "M",
    "N", "O", "P", "Q", "R", "S", "T", "U", "V", "W", "X", "Y", "Z">>

\* unicode.IsSpace restricted to ASCII
IsSpace(c) == c \in {" ", "\t", "\n", "\r"}

\* unicode.ToUpper restricted to ASCII
ToUpperChar(c) ==
  IF \E i \in 1..26 : LowerCase[i] = c
    THEN UpperCase[CHOOSE i \in 1..26 : LowerCase[i] = c]
    ELSE c

\* strings.ToUpper
ToUpper(s) == [i \in 1..Len(s) |-> ToUpperChar(s[i])]

RECURSIVE TrimLeftSpace(_)
TrimLeftSpace(s) ==
  IF s # <<>> /\ IsSpace(Head(s)) THEN TrimLeftSpace(Tail(s)) ELSE s

RECURSIVE TrimRightSpace(_)
TrimRightSpace(s) ==
  IF s # <<>> /\ IsSpace(s[Len(s)])
    THEN TrimRightSpace(SubSeq(s, 1, Len(s) - 1))
    ELSE s

\* strings.TrimSpace
TrimSpace(s) == TrimRightSpace(TrimLeftSpace(s))

\* strings.Index(s, c) for a one-character separator, 1-based; 0 when absent
Index(s, c) ==
  IF \E i \in 1..Len(s) : s[i] = c
    THEN CHOOSE i \in 1..Len(s) : s[i] = c /\ \A j \in 1..(i - 1) : s[j] # c
    ELSE 0

\* strings.Split(s, c) for a one-character separator
RECURSIVE Split(_, _)
Split(s, c) ==
  LET i == Index(s, c)
  IN  IF i = 0
        THEN <<s>>
        ELSE <<SubSeq(s, 1, i - 1)>> \o Split(SubSeq(s, i + 1, Len(s)), c)

RECURSIVE TrimLeftChar(_, _)
TrimLeftChar(s, c) ==
  IF s # <<>> /\ Head(s) = c THEN TrimLeftChar(Tail(s), c) ELSE s

RECURSIVE TrimRightChar(_, _)
TrimRightChar(s, c) ==
  IF s # <<>> /\ s[Len(s)] = c
    THEN TrimRightChar(SubSeq(s, 1, Len(s) - 1), c)
    ELSE s

\* strings.Trim(s, c) for a one-character cutset
Trim(s, c) == TrimRightChar(TrimLeftChar(s, c), c)

\* ------------------------------------------------------------------------
\* Status vocabulary
\* ------------------------------------------------------------------------

S_PENDING == <<"P", "E", "N", "D", "I", "N", "G">>

S_RUNNING == <<"R", "U", "N", "N", "I", "N", "G">>

S_UNKNOWN == <<"U", "N", "K", "N", "O", "W", "N">>

S_SUBMITTED == <<"S", "U", "B", "M", "I", "T", "T", "E", "D">>

S_COMPLETED == <<"C", "O", "M", "P", "L", "E", "T", "E", "D">>

S_CANCELLED == <<"C", "A", "N", "C", "E", "L", "L", "E", "D">>

\* the case labels of the switch in isActiveStatus
ActiveStatuses ==
  { S_PENDING, (<<"C", "O", "N", "F", "I", "G", "U", "R", "I", "N", "G">>), S_RUNNING, (<<"C", "O", "M", "P", "L", "E", "T", "I", "N", "G">>), (<<"S", "U", "S", "P", "E", "N", "D", "E", "D">>),
    (<<"R", "E", "S", "V", "_", "D", "E", "L", "_", "H", "O", "L", "D">>), (<<"S", "P", "E", "C", "I", "A", "L", "_", "E", "X", "I", "T">>) }

\* Variant that also counts UNKNOWN as active.
isActiveStatus_UnknownActive(st) ==
  ToUpper(TrimSpace(st)) \in ActiveStatuses \cup {S_UNKNOWN}

\* Variant without the strings.TrimSpace.
isActiveStatus_NoTrim(st) == ToUpper(st) \in ActiveStatuses

isActiveStatus(st) == ToUpper(TrimSpace(st)) \in ActiveStatuses

\* ------------------------------------------------------------------------
\* Remote commands: what a child process can come back with
\* ------------------------------------------------------------------------

\* ssh ... squeue -h -j <job> -o %T : exit status and combined output
SqueueOutcomes ==
  { [exit |-> 1, out |-> <<>>],
    [exit |-> 0, out |-> <<>>],
    [exit |-> 0, out |-> <<"\n">>],
    [exit |-> 0, out |-> S_RUNNING \o <<"\n">>],
    [exit |-> 0, out |-> <<" ">> \o S_PENDING \o <<"\n">> \o S_RUNNING \o <<"\n">>],
    [exit |-> 0, out |-> S_COMPLETED \o <<"\n">>] }

\* ssh ... sacct -n -X -j <job> -o State : exit status and combined output
SacctOutcomes ==
  { [exit |-> 1, out |-> <<>>],
    [exit |-> 0, out |-> <<>>],
    [exit |-> 0, out |-> <<"+", "\n">>],
    [exit |-> 0, out |-> <<" ", " ">> \o S_COMPLETED \o <<" ", "\n">>],
    [exit |-> 0, out |-> S_CANCELLED \o <<" ", "b", "y", " ", "0", "\n">>],
    [exit |-> 0, out |-> S_RUNNING \o <<"\n">>] }

\* the job id of the usual answer of sbatch
J_4242 == <<"4", "2", "4", "2">>

\* ssh ... sbatch answers "Submitted batch job 4242"
SubmitNormal ==
  [exit |-> 0,
   out |-> <<"S", "u", "b", "m", "i", "t", "t", "e", "d", " ", "b", "a", "t", "c", "h", " ", "j", "o", "b", " ", "4", "2", "4", "2", "\n">>]

\* ssh ... sbatch : exit status and combined output
SubmitOutcomes ==
  { [exit |-> 1, out |-> <<"s", "b", "a", "t", "c", "h", ":", " ", "e", "r", "r", "o", "r", "\n">>],
    [exit |-> 0, out |-> <<>>],
    [exit |-> 0, out |-> <<" ", "\t", "\n">>],
    SubmitNormal,
    [exit |-> 0, out |-> J_4242],
    [exit |-> 0,
     out |-> <<"\t", "w", "a", "r", "n", ":", " ", "x", "\n", "S", "u", "b", "m", "i", "t", "t", "e", "d", " ", "b", "a", "t", "c", "h", " ", "j", "o", "b", " ", "7", "7", " ", "\n">>] }

\* ------------------------------------------------------------------------
\* Program constants
\* ------------------------------------------------------------------------

\* defaultPollInterval, in seconds
defaultPollInterval == 30

\* sinceStartGracePeriod, in seconds
sinceStartGracePeriod == 120

\* artifactSettleDelay, in seconds
artifactSettleDelay == 10

\* retry < 6 in the listing loop of fetchArtifacts
listRetries == 6

\* time.Sleep(3 * time.Second) between two listings
listRetryDelay == 3

\* ------------------------------------------------------------------------
\* Paths, remote files and filter patterns
\* ------------------------------------------------------------------------

P_out == <<"/", "o", "u", "t">>

P_alt == <<"/", "a", "l", "t">>

P_rel == <<"r", "e", "l">>

F_a_json == <<"a", ".", "j", "s", "o", "n">>

F_b_txt == <<"b", ".", "t", "x", "t">>

F_sub_c_json == <<"s", "u", "b", "/", "c", ".", "j", "s", "o", "n">>

\* the regular expressions \.json$ and ^c\.json$, and a malformed one
Pat_json == <<"\\", ".", "j", "s", "o", "n", "$">>

Pat_c_json == <<"^", "c", "\\", ".", "j", "s", "o", "n", "$">>

Pat_bad == <<"(">>

\* files a remote tree can hold, with their modification times: two are
\* written by the job, one is older than any start time minus the grace
\* period
File_a == [name |-> F_a_json, mtime |-> StartTime + 5]

File_b == [name |-> F_b_txt, mtime |-> StartTime + 5]

File_c == [name |-> F_sub_c_json, mtime |-> StartTime - 500]

\* what a source tree can hold when it is listed, in the order of find
Trees ==
  { <<>>, <<File_b>>, <<File_c>>, <<File_a, File_b, File_c>> }

\* find ... -newermt @epoch keeps the files modified after epoch;
\* newermt is <<>> when the predicate is absent
FindSelects(tree, newermt) ==
  IF newermt = <<>> THEN tree
  ELSE SelectSeq(tree, LAMBDA f : f.mtime > newermt[1])

\* the standard output of find . -type f -print
RECURSIVE FindStdout(_)
FindStdout(shown) ==
  IF shown = <<>> THEN <<>>
  ELSE <<".", "/">> \o Head(shown).name \o <<"\n">> \o FindStdout(Tail(shown))

\* strings.TrimPrefix(line, "./")
TrimPrefixDotSlash(line) ==
  IF Len(line) >= 2 /\ line[1] = "." /\ line[2] = "/"
    THEN SubSeq(line, 3, Len(line))
    ELSE line

\* listRemoteFiles: the loop over the lines of find's output
RECURSIVE listLines(_)
listLines(lines) ==
  IF lines = <<>> THEN <<>>
  ELSE LET line == TrimSpace(Head(lines))
       IN  IF line = <<>> \/ line = <<".">>
             THEN listLines(Tail(lines))
             ELSE <<TrimPrefixDotSlash(line)>> \o listLines(Tail(lines))

\* listRemoteFiles: the files parsed from the standard output
parseFindOutput(stdout) ==
  LET trimmed == TrimSpace(stdout)
  IN  IF trimmed = <<>> THEN <<>> ELSE listLines(Split(trimmed, "\n"))

\* parseFindOutput over the outputs of the model, computed once
listedFiles ==
  [shown \in { FindSelects(tr, nm) :
                 tr \in Trees,
                 nm \in {<<>>} \cup
                        { <<f.mtime>> : f \in {File_a, File_b, File_c} } } |->
     parseFindOutput(FindStdout(shown))]

\* Variant that passes the since time itself.
findNewermt_NoGrace(since) ==
  IF since # 0 THEN <<since>> ELSE <<>>

\* listRemoteFiles: the time predicate of the find command for a since
\* time, <<>> when there is none (time.Time 0 is the zero time)
findNewermt(since) ==
  IF since # 0 THEN <<since - sinceStartGracePeriod>> ELSE <<>>

\* regexp.Compile on the patterns of the model: literal characters,
\* backslash escapes and the anchors ^ and $; an unbalanced parenthesis
\* is a syntax error
CountChar(p, c) == Cardinality({i \in 1..Len(p) : p[i] = c})

regexpCompiles(p) == CountChar(p, "(") = CountChar(p, ")")

\* (*Regexp).MatchString for a pattern that compiles
MatchString(p, text) ==
  LET anchorL == Len(p) >= 1 /\ p[1] = "^"
      anchorR == /\ Len(p) >= 1
                 /\ p[Len(p)] = "$"
                 /\ (Len(p) < 2 \/ p[Len(p) - 1] # "\\")
      body == SubSeq(p, IF anchorL THEN 2 ELSE 1,
                        IF anchorR THEN Len(p) - 1 ELSE Len(p))
      lit == SelectSeq(body, LAMBDA c : c # "\\")
      n == Len(lit)
  IN  \E i \in 0..(Len(text) - n) :
        /\ SubSeq(text, i + 1, i + n) = lit
        /\ anchorL => i = 0
        /\ anchorR => i + n = Len(text)

\* filepath.Base of a relative path of a file
Base(rel) ==
  LET slashes == {i \in 1..Len(rel) : rel[i] = "/"}
  IN  IF slashes = {} THEN rel
      ELSE SubSeq(rel, (CHOOSE i \in slashes : \A j \in slashes : j <= i) + 1,
                  Len(rel))

\* filepath.Join(root, rel) of an absolute root and a relative path
Join(root, rel) == TrimRightChar(root, "/") \o <<"/">> \o rel

\* Variant that does not try the final path segment.
patternMatches_NoBase(res, remoteRoot, rel) ==
  IF Len(res) = 0 THEN TRUE
  ELSE LET full == IF remoteRoot # <<>> THEN Join(remoteRoot, rel) ELSE rel
       IN  \E k \in 1..Len(res) :
             \/ MatchString(res[k], rel)
             \/ MatchString(res[k], full)

\* the expressions are compiled, so none of them is nil
patternMatches(res, remoteRoot, rel) ==
  IF Len(res) = 0 THEN TRUE
  ELSE LET full == IF remoteRoot # <<>> THEN Join(remoteRoot, rel) ELSE rel
           base == Base(rel)
       IN  \E k \in 1..Len(res) :
             \/ MatchString(res[k], rel)
             \/ MatchString(res[k], base)
             \/ MatchString(res[k], full)

\* Variant of the filter loop that stops at the first match.
filterFiles_FirstOnly(files, pats, root) ==
  LET all == SelectSeq(files, LAMBDA rel : patternMatches(pats, root, rel))
  IN  IF all = <<>> THEN <<>> ELSE <<all[1]>>

\* fetchArtifacts: the loop that keeps the discovered paths that match
filterFiles(files, pats, root) ==
  SelectSeq(files, LAMBDA rel : patternMatches(pats, root, rel))

\* ensurePatterns, and the same trimming in fetchArtifacts
ensurePatterns(pats) ==
  SelectSeq([k \in 1..Len(pats) |-> TrimSpace(pats[k])],
            LAMBDA p : p # <<>>)

\* the artifact configuration cmdRun resolves before it submits
ArtifactSource1 == [Path |-> P_out, Patterns |-> <<>>]

\* ------------------------------------------------------------------------
\* Pure functions of the status lookup
\* ------------------------------------------------------------------------

\* strings.Fields: the maximal runs of characters that are not white space
RECURSIVE FieldsFrom(_, _)
FieldsFrom(s, cur) ==
  IF s = <<>> THEN (IF cur = <<>> THEN <<>> ELSE <<cur>>)
  ELSE IF IsSpace(Head(s))
    THEN (IF cur = <<>> THEN <<>> ELSE <<cur>>) \o FieldsFrom(Tail(s), <<>>)
  ELSE FieldsFrom(Tail(s), Append(cur, Head(s)))

Fields(s) == FieldsFrom(s, <<>>)

\* Variant that takes the first token of the output.
submitSbatchSSH_FirstToken(o) ==
  IF o.exit # 0 THEN [jobID |-> <<>>, err |-> TRUE]
  ELSE LET parts == Fields(o.out)
       IN  IF Len(parts) = 0 THEN [jobID |-> <<>>, err |-> TRUE]
           ELSE [jobID |-> parts[1], err |-> FALSE]

submitSbatchSSH(o) ==
  IF o.exit # 0 THEN [jobID |-> <<>>, err |-> TRUE]
  ELSE LET parts == Fields(o.out)
       IN  IF Len(parts) = 0 THEN [jobID |-> <<>>, err |-> TRUE]
           ELSE [jobID |-> parts[Len(parts)], err |-> FALSE]

\* submitSbatchSSH over the answers of the model, computed once
submitResult == [o \in SubmitOutcomes |-> submitSbatchSSH(o)]

runSqueue(c) ==
  IF c.exit # 0 THEN [status |-> <<>>, err |-> TRUE]
  ELSE LET text == TrimSpace(c.out)
       IN  IF text = <<>>
             THEN [status |-> <<>>, err |-> FALSE]
             ELSE [status |-> TrimSpace(Split(text, "\n")[1]), err |-> FALSE]

\* the loop over the lines of sacct's output
RECURSIVE sacctFirstState(_)
sacctFirstState(lines) ==
  IF lines = <<>> THEN <<>>
  ELSE LET line == TrimSpace(Head(lines))
       IN  IF line = <<>>
             THEN sacctFirstState(Tail(lines))
             ELSE LET idx == Index(line, " ")
                      state == IF idx > 0 THEN SubSeq(line, 1, idx - 1) ELSE line
                  IN  Trim(state, "+")

runSacct(c) ==
  IF c.exit # 0 THEN [status |-> <<>>, err |-> TRUE]
  ELSE [status |-> sacctFirstState(Split(TrimSpace(c.out), "\n")), err |-> FALSE]

\* runSqueue and runSacct over the answers of the model, computed once
squeueResult == [c \in SqueueOutcomes |-> runSqueue(c)]

sacctResult == [c \in SacctOutcomes |-> runSacct(c)]

\* queryJobStatus up to the answer of the queue view: either it returns
\* (a status or an error) or it goes on to the accounting view.
\* Variant that falls back to the accounting view on a failed queue view.
queryJobStatusQueue_FallBackOnError(jobID, c) ==
  IF jobID = <<>>
    THEN [next |-> "return", status |-> S_UNKNOWN, err |-> FALSE]
    ELSE LET r == squeueResult[c]
         IN  IF ~r.err /\ r.status # <<>>
               THEN [next |-> "return", status |-> r.status, err |-> FALSE]
               ELSE [next |-> "sacct", status |-> <<>>, err |-> FALSE]

\* Variant that reports UNKNOWN for a failed queue view.
queryJobStatusQueue_SwallowError(jobID, c) ==
  IF jobID = <<>>
    THEN [next |-> "return", status |-> S_UNKNOWN, err |-> FALSE]
    ELSE LET r == squeueResult[c]
         IN  IF r.err
               THEN [next |-> "return", status |-> S_UNKNOWN, err |-> FALSE]
             ELSE IF r.status # <<>>
               THEN [next |-> "return", status |-> r.status, err |-> FALSE]
             ELSE [next |-> "sacct", status |-> <<>>, err |-> FALSE]

queryJobStatusQueue(jobID, c) ==
  IF jobID = <<>>
    THEN [next |-> "return", status |-> S_UNKNOWN, err |-> FALSE]
    ELSE LET r == squeueResult[c]
         IN  IF r.err
               THEN [next |-> "return", status |-> <<>>, err |-> TRUE]
             ELSE IF r.status # <<>>
               THEN [next |-> "return", status |-> r.status, err |-> FALSE]
             ELSE [next |-> "sacct", status |-> <<>>, err |-> FALSE]

\* Variant that propagates a failure of the accounting view.
queryJobStatusAcct_PropagateError(c) ==
  LET r == sacctResult[c]
  IN  IF r.err THEN [status |-> <<>>, err |-> TRUE]
      ELSE IF r.status # <<>> THEN [status |-> r.status, err |-> FALSE]
      ELSE [status |-> S_UNKNOWN, err |-> FALSE]

\* queryJobStatus from the call of the accounting view on
queryJobStatusAcct(c) ==
  LET r == sacctResult[c]
  IN  IF ~r.err
        THEN IF r.status # <<>>
               THEN [status |-> r.status, err |-> FALSE]
               ELSE [status |-> S_UNKNOWN, err |-> FALSE]
        ELSE [status |-> S_UNKNOWN, err |-> FALSE]

\* Variant without the continue after a failed query.
AfterQuery_NoContinue(err) == "persist"

\* monitorExperiment: where the loop goes with the answer of the query
AfterQuery(err) == IF err THEN "sleepErr" ELSE "persist"

\* Variant that never leaves the loop.
AfterPersist_NoBreak(st) == "sleep"

\* Variant with the test of isActiveStatus inverted.
AfterPersist_Inverted(st) == IF isActiveStatus(st) THEN "complete" ELSE "sleep"

\* monitorExperiment: where the loop goes once the status is persisted
AfterPersist(st) == IF isActiveStatus(st) THEN "sleep" ELSE "complete"

\* ------------------------------------------------------------------------
\* State
\* ------------------------------------------------------------------------

VARIABLES
  pc,          \* position of the run command
  ret,         \* what the command returned: "none", "ok" or "err"
  errKind,     \* which call produced the returned error
  cfg,         \* resolved artifact configuration of the run
  exp,         \* the in-memory Experiment
  db,          \* the experiment's row in the store
  status,      \* local variable status of monitorExperiment
  sqCmd,       \* what squeue answers when asked now
  saCmd,       \* what sacct answers when asked now
  now,         \* the wall clock, in seconds
  lastResult,  \* history: <<s>> for the last successfully queried status s
  lastOrigin,  \* history: how the last status query ended
  nFails,      \* history: consecutive failed status queries
  trace,       \* history: classes of the statuses written to the store
  termVals,    \* history: terminal statuses written by the poller
  fnArg,       \* argument of a function under test
  fnDone,      \* whether the function has been applied
  fnRet,       \* its result
  call,        \* the frame of fetchArtifactSources and fetchArtifacts
  local,       \* relative paths present under the local destination
  listLog,     \* history: the remote listings issued, in order
  rsyncLog,    \* history: the invocations of the transfer utility
  dryLog,      \* history: the listings printed by dry runs
  nSettle,     \* history: settle delays slept
  sbCmd,       \* what sbatch answers when the job is submitted
  remoteLog    \* history: the remote commands cmdRun issued, in order

runVars == <<pc, ret, errKind, cfg, exp, db, status, sqCmd, saCmd, now>>
histVars == <<lastResult, lastOrigin, nFails, trace, termVals>>
fnVars == <<fnArg, fnDone, fnRet>>
fetchVars == <<call, local, listLog, rsyncLog, dryLog, nSettle>>
cmdVars == <<sbCmd, remoteLog>>
vars == <<pc, ret, errKind, cfg, exp, db, status, sqCmd, saCmd, now,
          lastResult, lastOrigin, nFails, trace, termVals,
          fnArg, fnDone, fnRet,
          call, local, listLog, rsyncLog, dryLog, nSettle,
          sbCmd, remoteLog>>

Min(a, b) == IF a < b THEN a ELSE b

\* time.Time is an integer, 0 being the zero time; Format(time.RFC3339)
\* gives a non-empty string, "" (here <<>>) standing for an unset column
FormatTime(t) == <<t>>

\* parsing of a time column by loadExperimentByID: an empty or unparsable
\* column leaves the zero time
ParseTime(col) == IF Len(col) = 1 THEN col[1] ELSE 0

\* a row of the table experiments; snapshot_sources is the list
\* artifact_sources inside the column config_snapshot
NoRow ==
  [exists |-> FALSE, job_id |-> <<>>, job_status |-> <<>>,
   created_at |-> <<>>, completed_at |-> <<>>,
   artifact_remote |-> <<>>, artifact_dest |-> "",
   artifact_pattern |-> <<>>, artifact_since_start |-> 0,
   artifact_last_sync |-> <<>>, artifact_last_error |-> "",
   snapshot_sources |-> <<>>]

NoExperiment ==
  [ID |-> 0, JobID |-> <<>>, JobStatus |-> <<>>, CreatedAt |-> 0,
   CompletedAt |-> 0, ArtifactRemote |-> <<>>, ArtifactDest |-> "",
   ArtifactSources |-> <<>>, ArtifactPattern |-> <<>>,
   ArtifactSinceStart |-> FALSE, ArtifactLastSync |-> 0]

\* the store assigns the id of the inserted row
NewID == 1

\* filepath.Join(artifactDestAbs, fmt.Sprintf("%d", id))
JoinID(dest, id) == IF id = 1 THEN dest \o "/1" ELSE dest \o "/n"

\* st is one of the seven active names, in any letter case, with any
\* whitespace around it
NamesActive(st) ==
  \E w \in ActiveStatuses : \E a \in 0..Len(st) :
     /\ a + Len(w) <= Len(st)
     /\ \A k \in 1..a : IsSpace(st[k])
     /\ \A k \in (a + Len(w) + 1)..Len(st) : IsSpace(st[k])
     /\ \A k \in 1..Len(w) :
          \/ st[a + k] = w[k]
          \/ \E n \in 1..26 :
               UpperCase[n] = w[k] /\ LowerCase[n] = st[a + k]

\* class of a status written to the store
StatusClass(st) == IF NamesActive(st) THEN "A" ELSE "T"

MaxTrace == 4

\* the trace of written classes, consecutive repetitions written once
Logged(tr, c) ==
  IF tr # <<>> /\ tr[Len(tr)] = c THEN tr
  ELSE IF Len(tr) >= MaxTrace THEN tr
  ELSE Append(tr, c)

\* ------------------------------------------------------------------------
\* Store updates
\* ------------------------------------------------------------------------

\* Variant that writes the status only together with a completion time.
updateExperimentStatus_OnlyWithTime(row, st, completedAt) ==
  IF completedAt # <<>>
    THEN [row EXCEPT !.job_status = st,
                     !.completed_at = FormatTime(completedAt[1])]
    ELSE row

\* Variant whose UPDATE also rewrites the creation time.
updateExperimentStatus_TouchesCreated(row, st, completedAt) ==
  IF completedAt # <<>>
    THEN [row EXCEPT !.job_status = st,
                     !.completed_at = FormatTime(completedAt[1]),
                     !.created_at = FormatTime(completedAt[1])]
    ELSE [row EXCEPT !.job_status = st]

\* UPDATE experiments SET job_status = ? [, completed_at = ?]
\* completedAt is <<>> for a nil pointer and <<t>> for a time t
updateExperimentStatus(row, st, completedAt) ==
  IF completedAt # <<>>
    THEN [row EXCEPT !.job_status = st,
                     !.completed_at = FormatTime(completedAt[1])]
    ELSE [row EXCEPT !.job_status = st]

\* Variant whose UPDATE writes the status column back as submitted.
recordArtifactSync_ResetsStatus(row, syncedAt, errMsg) ==
  [row EXCEPT !.artifact_last_sync =
                 IF syncedAt # <<>> THEN FormatTime(syncedAt[1]) ELSE <<>>,
              !.artifact_last_error = errMsg,
              !.job_status = S_SUBMITTED]

\* Variant whose UPDATE also resets the completion time.
recordArtifactSync_ResetsCompleted(row, syncedAt, errMsg) ==
  [row EXCEPT !.artifact_last_sync =
                 IF syncedAt # <<>> THEN FormatTime(syncedAt[1]) ELSE <<>>,
              !.artifact_last_error = errMsg,
              !.completed_at = <<>>]

\* Variant of the UPDATE that stores no time for a successful sync.
recordArtifactSync_DropsTime(row, syncedAt, errMsg) ==
  [row EXCEPT !.artifact_last_sync = <<>>,
              !.artifact_last_error = errMsg]

\* Variant whose UPDATE keeps the time of the last sync on a failure.
recordArtifactSync_KeepsSync(row, syncedAt, errMsg) ==
  [row EXCEPT !.artifact_last_sync =
                 IF syncedAt # <<>> THEN FormatTime(syncedAt[1]) ELSE @,
              !.artifact_last_error = errMsg]

\* Variant whose UPDATE also clears the recorded pattern string.
recordArtifactSync_ClearsPattern(row, syncedAt, errMsg) ==
  [row EXCEPT !.artifact_last_sync =
                 IF syncedAt # <<>> THEN FormatTime(syncedAt[1]) ELSE <<>>,
              !.artifact_last_error = errMsg,
              !.artifact_pattern = <<>>]

\* Variant whose UPDATE leaves the error column alone.
recordArtifactSync_KeepsError(row, syncedAt, errMsg) ==
  [row EXCEPT !.artifact_last_sync =
                 IF syncedAt # <<>> THEN FormatTime(syncedAt[1]) ELSE <<>>]

\* UPDATE experiments SET artifact_last_sync = ?, artifact_last_error = ?
recordArtifactSync(row, syncedAt, errMsg) ==
  [row EXCEPT !.artifact_last_sync =
                 IF syncedAt # <<>> THEN FormatTime(syncedAt[1]) ELSE <<>>,
              !.artifact_last_error = errMsg]

\* strings.Join(lines, "\n")
RECURSIVE JoinLines(_)
JoinLines(lines) ==
  IF lines = <<>> THEN <<>>
  ELSE IF Len(lines) = 1 THEN lines[1]
  ELSE lines[1] \o <<"\n">> \o JoinLines(Tail(lines))

RECURSIVE flattenPatternsFromSources(_)
flattenPatternsFromSources(src) ==
  IF src = <<>> THEN <<>>
  ELSE (IF Len(Head(src).Patterns) = 0 THEN << <<>> >>
        ELSE Head(src).Patterns)
       \o flattenPatternsFromSources(Tail(src))

combinePatterns(patterns) == JoinLines(ensurePatterns(patterns))

splitPatterns(p) ==
  LET t == TrimSpace(p)
  IN  IF t = <<>> THEN <<>> ELSE ensurePatterns(Split(t, "\n"))

\* Variant whose synthesized source takes the pattern string as one pattern.
EffectiveArtifactSources_RawPattern(e) ==
  IF Len(e.ArtifactSources) > 0 THEN e.ArtifactSources
  ELSE IF e.ArtifactRemote = <<>> THEN <<>>
  ELSE <<[Path |-> e.ArtifactRemote,
          Patterns |-> IF e.ArtifactPattern = <<>> THEN <<>>
                       ELSE <<e.ArtifactPattern>>]>>

\* the receiver is never nil at the call sites
EffectiveArtifactSources(e) ==
  IF Len(e.ArtifactSources) > 0 THEN e.ArtifactSources
  ELSE IF e.ArtifactRemote = <<>> THEN <<>>
  ELSE <<[Path |-> e.ArtifactRemote,
          Patterns |-> splitPatterns(e.ArtifactPattern)]>>

\* ------------------------------------------------------------------------
\* The run command
\* ------------------------------------------------------------------------

Return(kind) ==
  /\ pc' = "done"
  /\ ret' = IF kind = "none" THEN "ok" ELSE "err"
  /\ errKind' = kind

\* no call of fetchArtifactSources has been made
NoCall ==
  [sources |-> <<>>, dest |-> "", sinceStart |-> FALSE, dryRun |-> FALSE,
   idx |-> 0, attempt |-> 0, retry |-> 0, files |-> <<>>, err |-> ""]

\* no submission is part of the command
NoSubmit ==
  /\ sbCmd = [exit |-> 0, out |-> <<>>]
  /\ remoteLog = <<>>

NoFetch ==
  /\ call = NoCall
  /\ local = {}
  /\ listLog = <<>>
  /\ rsyncLog = <<>>
  /\ dryLog = <<>>
  /\ nSettle = 0

InitRun ==
  /\ pc = "submit"
  /\ ret = "none"
  /\ errKind = "none"
  /\ cfg \in
       { [cmd |-> "run", sources |-> <<>>, dest |-> "",
          sinceStart |-> FALSE],
         [cmd |-> "run", sources |-> <<ArtifactSource1>>, dest |-> "",
          sinceStart |-> FALSE],
         [cmd |-> "run", sources |-> <<ArtifactSource1>>, dest |-> "/dest",
          sinceStart |-> FALSE] }
  /\ exp = NoExperiment
  /\ db = NoRow
  /\ status = <<>>
  /\ sqCmd \in SqueueOutcomes
  /\ saCmd \in SacctOutcomes
  /\ now = StartTime
  /\ lastResult = <<>>
  /\ lastOrigin = "none"
  /\ nFails = 0
  /\ trace = <<>>
  /\ termVals = {}
  /\ fnArg = <<>>
  /\ fnDone = FALSE
  /\ fnRet = FALSE
  /\ NoFetch
  /\ sbCmd \in SubmitOutcomes
  /\ (cfg.sources # <<>> \/ cfg.dest # "") => sbCmd = SubmitNormal
  /\ remoteLog = <<>>

\* cmdRun: the one submission of the job
Submit ==
  /\ pc = "submit"
  /\ remoteLog' = Append(remoteLog, "sbatch")
  /\ LET r == submitResult[sbCmd]
     IN  IF r.err
           THEN Return("submit") /\ UNCHANGED exp
           ELSE /\ pc' = "create"
                /\ exp' = [exp EXCEPT !.JobID = r.jobID]
                /\ UNCHANGED <<ret, errKind>>
  /\ UNCHANGED <<cfg, db, status, sqCmd, saCmd, now>>
  /\ UNCHANGED histVars
  /\ UNCHANGED fnVars
  /\ UNCHANGED fetchVars
  /\ UNCHANGED sbCmd

\* cmdRun: the columns of the INSERT
InsertedRow(c, jobID, createdAt) ==
  [exists |-> TRUE, job_id |-> jobID,
   job_status |-> S_SUBMITTED,
   created_at |-> FormatTime(createdAt), completed_at |-> <<>>,
   artifact_remote |->
     IF Len(c.sources) > 0 THEN c.sources[1].Path ELSE <<>>,
   artifact_dest |-> c.dest,
   artifact_pattern |->
     combinePatterns(flattenPatternsFromSources(c.sources)),
   artifact_since_start |-> IF c.sinceStart THEN 1 ELSE 0,
   artifact_last_sync |-> <<>>, artifact_last_error |-> "",
   snapshot_sources |-> <<>>]

\* cmdRun: the Experiment handed to monitorExperiment
NewExperiment(c, jobID, createdAt, destFinal) ==
  [NoExperiment EXCEPT
     !.ID = NewID,
     !.JobID = jobID,
     !.JobStatus = S_SUBMITTED,
     !.CreatedAt = createdAt,
     !.ArtifactRemote =
        IF Len(c.sources) > 0 THEN c.sources[1].Path ELSE <<>>,
     !.ArtifactDest = destFinal,
     !.ArtifactSources = c.sources,
     !.ArtifactPattern =
        combinePatterns(flattenPatternsFromSources(c.sources)),
     !.ArtifactSinceStart = c.sinceStart]

\* cmdRun: INSERT of the record; without a destination the Experiment is
\* built and monitorExperiment starts
CreateRecord ==
  /\ pc = "create"
  /\ \E insertOK \in BOOLEAN :
       IF ~insertOK
         THEN Return("db") /\ UNCHANGED <<exp, db, trace>>
         ELSE /\ db' = InsertedRow(cfg, exp.JobID, now)
              /\ trace' = Logged(trace, "S")
              /\ UNCHANGED <<ret, errKind>>
              /\ IF cfg.dest # ""
                   THEN pc' = "setdest" /\ UNCHANGED exp
                   ELSE /\ pc' = "squeue"
                        /\ exp' = NewExperiment(cfg, exp.JobID, now, cfg.dest)
  /\ UNCHANGED <<cfg, status, sqCmd, saCmd, now>>
  /\ UNCHANGED <<lastResult, lastOrigin, nFails, termVals>>
  /\ UNCHANGED fnVars
  /\ UNCHANGED cmdVars
  /\ UNCHANGED fetchVars

\* cmdRun: the per-experiment destination, written to the record after the
\* INSERT gave the id; then the Experiment is built and monitorExperiment
\* starts
UpdateDestination ==
  /\ pc = "setdest"
  /\ \E updateOK \in BOOLEAN :
       IF ~updateOK
         THEN Return("db") /\ UNCHANGED <<exp, db>>
         ELSE /\ db' = [db EXCEPT !.artifact_dest = JoinID(cfg.dest, NewID)]
              /\ exp' = NewExperiment(cfg, exp.JobID, ParseTime(db.created_at),
                                      JoinID(cfg.dest, NewID))
              /\ pc' = "squeue"
              /\ UNCHANGED <<ret, errKind>>
  /\ UNCHANGED <<cfg, status, sqCmd, saCmd, now>>
  /\ UNCHANGED histVars
  /\ UNCHANGED fnVars
  /\ UNCHANGED cmdVars
  /\ UNCHANGED fetchVars

\* queryJobStatus: the empty-job-id shortcut and the queue view, and the
\* branch of monitorExperiment on the error it returns
QuerySqueue ==
  /\ pc = "squeue"
  /\ LET q == queryJobStatusQueue(exp.JobID, sqCmd)
     IN  IF q.next = "sacct"
           THEN /\ pc' = "sacct"
                /\ UNCHANGED <<status, lastResult, lastOrigin, nFails>>
           ELSE /\ status' = q.status
                /\ pc' = AfterQuery(q.err)
                /\ lastOrigin' = IF exp.JobID = <<>> THEN "nojob"
                                  ELSE IF sqCmd.exit # 0 THEN "squeueFail"
                                  ELSE "squeue"
                /\ lastResult' = IF q.err THEN lastResult ELSE <<q.status>>
                /\ nFails' = IF q.err THEN Min(nFails + 1, MaxFails) ELSE 0
  /\ UNCHANGED <<ret, errKind, cfg, exp, db, sqCmd, saCmd, now>>
  /\ UNCHANGED <<trace, termVals>>
  /\ UNCHANGED fnVars
  /\ UNCHANGED cmdVars
  /\ UNCHANGED fetchVars

\* queryJobStatus: the accounting view, asked after an empty queue view
QuerySacct ==
  /\ pc = "sacct"
  /\ LET q == queryJobStatusAcct(saCmd)
     IN  /\ status' = q.status
         /\ pc' = AfterQuery(q.err)
         /\ lastOrigin' = IF saCmd.exit # 0 THEN "sacctFail" ELSE "sacct"
         /\ lastResult' = IF q.err THEN lastResult ELSE <<q.status>>
         /\ nFails' = IF q.err THEN Min(nFails + 1, MaxFails) ELSE 0
  /\ UNCHANGED <<ret, errKind, cfg, exp, db, sqCmd, saCmd, now>>
  /\ UNCHANGED <<trace, termVals>>
  /\ UNCHANGED fnVars
  /\ UNCHANGED cmdVars
  /\ UNCHANGED fetchVars

\* monitorExperiment: time.Sleep(interval); continue, after a failed query
SleepAfterFailure ==
  /\ pc = "sleepErr"
  /\ pc' = "squeue"
  /\ now' = Min(now + defaultPollInterval, MaxNow)
  /\ UNCHANGED <<ret, errKind, cfg, exp, db, status, sqCmd, saCmd>>
  /\ UNCHANGED histVars
  /\ UNCHANGED fnVars
  /\ UNCHANGED cmdVars
  /\ UNCHANGED fetchVars

\* Variant of the first store update that goes on polling when the update
\* fails.
PersistStatus_IgnoresError ==
  /\ pc = "persist"
  /\ exp' = [exp EXCEPT !.JobStatus = status]
  /\ \E ok \in BOOLEAN :
       /\ db' = IF ok THEN updateExperimentStatus(db, status, <<>>) ELSE db
       /\ trace' = Logged(trace, StatusClass(status))
       /\ termVals' = IF NamesActive(status) THEN termVals
                      ELSE termVals \cup {status}
       /\ pc' = AfterPersist(status)
       /\ UNCHANGED <<ret, errKind>>
  /\ UNCHANGED <<cfg, status, sqCmd, saCmd, now>>
  /\ UNCHANGED <<lastResult, lastOrigin, nFails>>
  /\ UNCHANGED fnVars
  /\ UNCHANGED cmdVars
  /\ UNCHANGED fetchVars

\* monitorExperiment: exp.JobStatus = status and the first store update
PersistStatus ==
  /\ pc = "persist"
  /\ exp' = [exp EXCEPT !.JobStatus = status]
  /\ \E ok \in BOOLEAN :
       IF ok
         THEN /\ db' = updateExperimentStatus(db, status, <<>>)
              /\ trace' = Logged(trace, StatusClass(status))
              /\ termVals' = IF NamesActive(status) THEN termVals
                             ELSE termVals \cup {status}
              /\ pc' = AfterPersist(status)
              /\ UNCHANGED <<ret, errKind>>
         ELSE Return("db") /\ UNCHANGED <<db, trace, termVals>>
  /\ UNCHANGED <<cfg, status, sqCmd, saCmd, now>>
  /\ UNCHANGED <<lastResult, lastOrigin, nFails>>
  /\ UNCHANGED fnVars
  /\ UNCHANGED cmdVars
  /\ UNCHANGED fetchVars

\* monitorExperiment: the terminal branch, completion time and break
PersistCompletion ==
  /\ pc = "complete"
  /\ exp' = [exp EXCEPT !.CompletedAt = now]
  /\ \E ok \in BOOLEAN :
       IF ok
         THEN /\ db' = updateExperimentStatus(db, status, <<now>>)
              /\ trace' = Logged(trace, StatusClass(status))
              /\ termVals' = IF NamesActive(status) THEN termVals
                             ELSE termVals \cup {status}
              /\ pc' = "sources"
              /\ UNCHANGED <<ret, errKind>>
         ELSE Return("db") /\ UNCHANGED <<db, trace, termVals>>
  /\ UNCHANGED <<cfg, status, sqCmd, saCmd, now>>
  /\ UNCHANGED <<lastResult, lastOrigin, nFails>>
  /\ UNCHANGED fnVars
  /\ UNCHANGED cmdVars
  /\ UNCHANGED fetchVars

\* monitorExperiment: time.Sleep(interval) after an active status
SleepInterval ==
  /\ pc = "sleep"
  /\ pc' = "squeue"
  /\ now' = Min(now + defaultPollInterval, MaxNow)
  /\ UNCHANGED <<ret, errKind, cfg, exp, db, status, sqCmd, saCmd>>
  /\ UNCHANGED histVars
  /\ UNCHANGED fnVars
  /\ UNCHANGED cmdVars
  /\ UNCHANGED fetchVars

\* Variant that asks for sources only.
ShouldSync_IgnoresDest(sources, dest) == Len(sources) > 0

\* monitorExperiment: len(sources) > 0 && exp.ArtifactDest != ""
ShouldSync(sources, dest) == Len(sources) > 0 /\ dest # ""

\* monitorExperiment: whether an artifact sync follows the loop
CheckSources ==
  /\ pc = "sources"
  /\ IF ShouldSync(EffectiveArtifactSources(exp), exp.ArtifactDest)
       THEN pc' = "settle" /\ UNCHANGED <<ret, errKind>>
       ELSE Return("none")
  /\ UNCHANGED <<cfg, exp, db, status, sqCmd, saCmd, now>>
  /\ UNCHANGED histVars
  /\ UNCHANGED fnVars
  /\ UNCHANGED cmdVars
  /\ UNCHANGED fetchVars

\* ------------------------------------------------------------------------
\* fetchArtifactSources and fetchArtifacts
\* ------------------------------------------------------------------------

\* positions inside a call of fetchArtifactSources, and after its return
InFetch == {"fetch", "list", "listSleep", "filter", "rsync", "fetched"}

\* the call fetchArtifactSources(exp, sources, destDir, sinceStart, dryRun)
BeginFetch(sources, destDir, sinceStart, dryRun) ==
  /\ pc' = "fetch"
  /\ call' = [NoCall EXCEPT !.sources = sources, !.dest = destDir,
                            !.sinceStart = sinceStart, !.dryRun = dryRun,
                            !.idx = 1]

\* fetchArtifactSources and fetchArtifacts: the checks made before the
\* first listing of a source; "" when they all pass
\* Variant without the check of the recorded start time.
EntryError_NoStartCheck(path, destDir, sinceStart, createdAt) ==
  IF path = <<>> THEN "artifact source has empty path"
  ELSE IF path[1] # "/" THEN "remote-path must be absolute"
  ELSE IF destDir = "" THEN "destination directory is required"
  ELSE ""

\* Variant without the check of the leading slash.
EntryError_NoAbsolute(path, destDir, sinceStart, createdAt) ==
  IF path = <<>> THEN "artifact source has empty path"
  ELSE IF destDir = "" THEN "destination directory is required"
  ELSE IF sinceStart /\ createdAt = 0 THEN "no recorded start time"
  ELSE ""

EntryError(path, destDir, sinceStart, createdAt) ==
  IF path = <<>> THEN "artifact source has empty path"
  ELSE IF path[1] # "/" THEN "remote-path must be absolute"
  ELSE IF destDir = "" THEN "destination directory is required"
  ELSE IF sinceStart /\ createdAt = 0 THEN "no recorded start time"
  ELSE ""

\* Variant that lists without a time filter first.
attempts_UnfilteredFirst(sinceStart, since) ==
  IF sinceStart THEN <<0, since>> ELSE <<0>>

\* fetchArtifacts: the since times of the listing strategies, in order;
\* 0 is the zero time of "without time filter"
attempts(sinceStart, since) ==
  IF sinceStart THEN <<since, 0>> ELSE <<0>>

\* Variant that keeps listing after a listing returned files.
AfterListing_NoStop(nFiles, retry, attempt, nAttempts) ==
  IF retry + 1 < listRetries
    THEN [pc |-> "listSleep", retry |-> retry + 1, attempt |-> attempt]
  ELSE IF attempt < nAttempts
    THEN [pc |-> "list", retry |-> 0, attempt |-> attempt + 1]
  ELSE [pc |-> "filter", retry |-> retry, attempt |-> attempt]

\* Variant that gives up after one strategy.
AfterListing_OneStrategy(nFiles, retry, attempt, nAttempts) ==
  IF nFiles > 0
    THEN [pc |-> "filter", retry |-> retry, attempt |-> attempt]
  ELSE IF retry + 1 < listRetries
    THEN [pc |-> "listSleep", retry |-> retry + 1, attempt |-> attempt]
  ELSE [pc |-> "filter", retry |-> retry, attempt |-> attempt]

\* fetchArtifacts: the two loops around listRemoteFiles, after a listing
\* that did not fail
AfterListing(nFiles, retry, attempt, nAttempts) ==
  IF nFiles > 0
    THEN [pc |-> "filter", retry |-> retry, attempt |-> attempt]
  ELSE IF retry + 1 < listRetries
    THEN [pc |-> "listSleep", retry |-> retry + 1, attempt |-> attempt]
  ELSE IF attempt < nAttempts
    THEN [pc |-> "list", retry |-> 0, attempt |-> attempt + 1]
  ELSE [pc |-> "filter", retry |-> retry, attempt |-> attempt]

\* Variant that lists again after a failed listing.
AfterSource_RetryFind(c, err) ==
  IF err = "remote find failed"
    THEN [pc |-> "list", call |-> c]
  ELSE IF err # ""
    THEN [pc |-> "fetched", call |-> [c EXCEPT !.err = err]]
  ELSE [pc |-> "fetch", call |-> [c EXCEPT !.idx = @ + 1, !.files = <<>>]]

\* Variant of the loop of fetchArtifactSources that skips a failed source.
AfterSource_SkipFailed(c, err) ==
  [pc |-> "fetch", call |-> [c EXCEPT !.idx = @ + 1, !.files = <<>>]]

\* fetchArtifactSources: what follows the return of fetchArtifacts for the
\* current source; err is "" for a nil error
AfterSource(c, err) ==
  IF err # ""
    THEN [pc |-> "fetched", call |-> [c EXCEPT !.err = err]]
    ELSE [pc |-> "fetch", call |-> [c EXCEPT !.idx = @ + 1, !.files = <<>>]]

\* rsyncFiles: the source root handed to rsync
sourceRoot(root) ==
  IF TrimRightChar(root, "/") = <<>> THEN <<"/">> ELSE TrimRightChar(root, "/")

\* Variant of the dry-run listing that prints the relative paths.
dryRunPaths_Relative(root, filtered) == filtered

\* fetchArtifacts: the lines a dry run prints, filepath.Join(remotePath, f)
dryRunPaths(root, filtered) ==
  [k \in 1..Len(filtered) |-> Join(root, filtered[k])]

\* Variant that invokes the transfer utility in a dry run too.
AfterFilter_IgnoresDryRun(filtered, dryRun) ==
  IF Len(filtered) = 0 THEN "skip" ELSE "rsync"

\* fetchArtifacts: what follows the filtering of the listed files
AfterFilter(filtered, dryRun) ==
  IF Len(filtered) = 0 THEN "skip"
  ELSE IF dryRun THEN "print"
  ELSE "rsync"

\* Variant that calls fetchArtifactSources without the sleep.
SettleDelay_Skipped ==
  /\ pc = "settle"
  /\ BeginFetch(EffectiveArtifactSources(exp), exp.ArtifactDest,
                exp.ArtifactSinceStart, FALSE)
  /\ UNCHANGED <<ret, errKind, cfg, exp, db, status, sqCmd, saCmd, now>>
  /\ UNCHANGED <<local, listLog, rsyncLog, dryLog, nSettle>>
  /\ UNCHANGED histVars
  /\ UNCHANGED fnVars
  /\ UNCHANGED cmdVars

\* monitorExperiment: time.Sleep(artifactSettleDelay) and the call of
\* fetchArtifactSources
SettleDelay ==
  /\ pc = "settle"
  /\ now' = now + artifactSettleDelay
  /\ nSettle' = nSettle + 1
  /\ BeginFetch(EffectiveArtifactSources(exp), exp.ArtifactDest,
                exp.ArtifactSinceStart, FALSE)
  /\ UNCHANGED <<ret, errKind, cfg, exp, db, status, sqCmd, saCmd>>
  /\ UNCHANGED <<local, listLog, rsyncLog, dryLog>>
  /\ UNCHANGED histVars
  /\ UNCHANGED fnVars
  /\ UNCHANGED cmdVars

\* fetchArtifactSources: the head of the loop over the sources, and
\* fetchArtifacts up to its first listing
EnterSource ==
  /\ pc = "fetch"
  /\ IF call.idx > Len(call.sources)
       THEN pc' = "fetched" /\ UNCHANGED call
       ELSE LET e == EntryError(call.sources[call.idx].Path, call.dest,
                                call.sinceStart, exp.CreatedAt)
            IN  IF e # ""
                  THEN /\ pc' = AfterSource(call, e).pc
                       /\ call' = AfterSource(call, e).call
                  ELSE /\ pc' = "list"
                       /\ call' = [call EXCEPT !.attempt = 1, !.retry = 0,
                                               !.files = <<>>]
  /\ UNCHANGED <<ret, errKind, cfg, exp, db, status, sqCmd, saCmd, now>>
  /\ UNCHANGED <<local, listLog, rsyncLog, dryLog, nSettle>>
  /\ UNCHANGED histVars
  /\ UNCHANGED fnVars
  /\ UNCHANGED cmdVars

\* fetchArtifacts: one call of listRemoteFiles; the remote tree and the
\* exit status of ssh are what they are at the time of the call
ListFiles ==
  /\ pc = "list"
  /\ \E tree \in Trees, ok \in BOOLEAN :
       LET ats == attempts(call.sinceStart, exp.CreatedAt)
           newermt == findNewermt(ats[call.attempt])
           files == IF ok THEN listedFiles[FindSelects(tree, newermt)]
                    ELSE <<>>
           nxt == AfterListing(Len(files), call.retry, call.attempt,
                               Len(ats))
       IN  /\ listLog' = Append(listLog,
                           [src |-> call.idx, newermt |-> newermt,
                            ok |-> ok, files |-> files])
           /\ IF ~ok
                THEN /\ pc' = AfterSource(call, "remote find failed").pc
                     /\ call' = AfterSource(call, "remote find failed").call
                ELSE /\ pc' = nxt.pc
                     /\ call' = [call EXCEPT !.files = files,
                                             !.retry = nxt.retry,
                                             !.attempt = nxt.attempt]
  /\ UNCHANGED <<ret, errKind, cfg, exp, db, status, sqCmd, saCmd, now>>
  /\ UNCHANGED <<local, rsyncLog, dryLog, nSettle>>
  /\ UNCHANGED histVars
  /\ UNCHANGED fnVars
  /\ UNCHANGED cmdVars

\* fetchArtifacts: time.Sleep(3 * time.Second) before a repeated listing
ListSleep ==
  /\ pc = "listSleep"
  /\ pc' = "list"
  /\ now' = now + listRetryDelay
  /\ UNCHANGED <<ret, errKind, cfg, exp, db, status, sqCmd, saCmd>>
  /\ UNCHANGED fetchVars
  /\ UNCHANGED histVars
  /\ UNCHANGED fnVars
  /\ UNCHANGED cmdVars

\* fetchArtifacts from the label FILES_FOUND to the call of rsyncFiles
FilterFiles ==
  /\ pc = "filter"
  /\ LET src == call.sources[call.idx]
         pats == ensurePatterns(ensurePatterns(src.Patterns))
         bad == \E k \in 1..Len(pats) : ~regexpCompiles(pats[k])
         filtered == filterFiles(call.files, pats, src.Path)
         todo == AfterFilter(filtered, call.dryRun)
     IN  IF Len(call.files) = 0
           THEN /\ pc' = AfterSource(call, "").pc
                /\ call' = AfterSource(call, "").call
                /\ UNCHANGED dryLog
         ELSE IF bad
           THEN /\ pc' = AfterSource(call, "compile pattern").pc
                /\ call' = AfterSource(call, "compile pattern").call
                /\ UNCHANGED dryLog
         ELSE IF todo = "rsync"
           THEN /\ pc' = "rsync"
                /\ call' = [call EXCEPT !.files = filtered]
                /\ UNCHANGED dryLog
         ELSE /\ pc' = AfterSource(call, "").pc
              /\ call' = AfterSource(call, "").call
              /\ dryLog' = IF todo = "print"
                             THEN Append(dryLog,
                                    [src |-> call.idx,
                                     rels |-> filtered,
                                     paths |-> dryRunPaths(src.Path,
                                                           filtered)])
                             ELSE dryLog
  /\ UNCHANGED <<ret, errKind, cfg, exp, db, status, sqCmd, saCmd, now>>
  /\ UNCHANGED <<local, listLog, rsyncLog, nSettle>>
  /\ UNCHANGED histVars
  /\ UNCHANGED fnVars
  /\ UNCHANGED cmdVars

\* rsyncFiles: one invocation of rsync; when it fails it may have copied
\* a part of the manifest
Rsync ==
  /\ pc = "rsync"
  /\ IF Len(call.files) = 0
       THEN /\ pc' = AfterSource(call, "").pc
            /\ call' = AfterSource(call, "").call
            /\ UNCHANGED <<local, rsyncLog>>
       ELSE \E ok \in BOOLEAN, part \in {0, 1} :
              LET copied == IF ok THEN call.files
                            ELSE SubSeq(call.files, 1, part)
                  e == IF ok THEN "" ELSE "rsync failed"
              IN  /\ rsyncLog' = Append(rsyncLog,
                                   [src |-> call.idx,
                                    root |-> sourceRoot(
                                               call.sources[call.idx].Path),
                                    dest |-> call.dest,
                                    manifest |-> call.files,
                                    ok |-> ok])
                  /\ local' = local \cup
                                {copied[k] : k \in 1..Len(copied)}
                  /\ pc' = AfterSource(call, e).pc
                  /\ call' = AfterSource(call, e).call
  /\ UNCHANGED <<ret, errKind, cfg, exp, db, status, sqCmd, saCmd, now>>
  /\ UNCHANGED <<listLog, dryLog, nSettle>>
  /\ UNCHANGED histVars
  /\ UNCHANGED fnVars
  /\ UNCHANGED cmdVars

\* monitorExperiment: the record of the outcome of fetchArtifactSources
MonitorRecordSync ==
  /\ pc = "fetched"
  /\ cfg.cmd = "run"
  /\ \E recordOK \in BOOLEAN :
       IF call.err # ""
         THEN /\ db' = IF recordOK
                         THEN recordArtifactSync(db, <<>>, call.err)
                         ELSE db
              /\ Return(IF recordOK THEN "sync" ELSE "db")
              /\ UNCHANGED exp
         ELSE /\ exp' = [exp EXCEPT !.ArtifactLastSync = now]
              /\ db' = IF recordOK
                         THEN recordArtifactSync(db, <<now>>, "")
                         ELSE db
              /\ Return(IF recordOK THEN "none" ELSE "db")
  /\ UNCHANGED <<cfg, status, sqCmd, saCmd, now>>
  /\ UNCHANGED histVars
  /\ UNCHANGED fnVars
  /\ UNCHANGED cmdVars
  /\ UNCHANGED fetchVars

\* ------------------------------------------------------------------------
\* The fetch command
\* ------------------------------------------------------------------------

\* rows as a finished run leaves them
StoredRow ==
  [exists |-> TRUE, job_id |-> J_4242, job_status |-> S_COMPLETED,
   created_at |-> FormatTime(StartTime),
   completed_at |-> FormatTime(StartTime + defaultPollInterval),
   artifact_remote |-> P_out, artifact_dest |-> "/dest/1",
   artifact_pattern |-> <<>>, artifact_since_start |-> 0,
   artifact_last_sync |-> <<>>, artifact_last_error |-> "",
   snapshot_sources |-> <<>>]

\* the clock when a fetch command starts
FetchTime == StartTime + defaultPollInterval + defaultPollInterval

InitFetch ==
  /\ pc = "fetchCmd"
  /\ ret = "none"
  /\ errKind = "none"
  /\ cfg \in
       [cmd : {"fetch"},
        remotePath : {<<>>, P_alt, P_rel},
        destDir : {"", "/other"},
        patternFlag : {<<>>, <<Pat_c_json>>, <<Pat_bad>>},
        sinceStartFlag : {[set |-> FALSE, value |-> FALSE],
                          [set |-> TRUE, value |-> TRUE]},
        dryRun : BOOLEAN]
  /\ exp = NoExperiment
  /\ db \in
       { NoRow,
         StoredRow,
         [StoredRow EXCEPT !.artifact_pattern = Pat_json,
                           !.artifact_since_start = 1,
                           !.artifact_last_error = "rsync failed"],
         [StoredRow EXCEPT !.artifact_remote = <<>>, !.artifact_dest = "",
                           !.artifact_last_sync =
                              FormatTime(StartTime + defaultPollInterval)] }
  /\ status = <<>>
  /\ sqCmd = [exit |-> 0, out |-> <<>>]
  /\ saCmd = [exit |-> 0, out |-> <<>>]
  /\ now = FetchTime
  /\ lastResult = <<>>
  /\ lastOrigin = "none"
  /\ nFails = 0
  /\ trace = <<>>
  /\ termVals = {}
  /\ fnArg = <<>>
  /\ fnDone = FALSE
  /\ fnRet = FALSE
  /\ NoFetch
  /\ NoSubmit

Init == InitRun \/ InitFetch

loadExperimentByID(row) ==
  [NoExperiment EXCEPT
     !.ID = NewID,
     !.JobID = row.job_id,
     !.JobStatus = row.job_status,
     !.CreatedAt = ParseTime(row.created_at),
     !.CompletedAt = ParseTime(row.completed_at),
     !.ArtifactRemote = row.artifact_remote,
     !.ArtifactDest = row.artifact_dest,
     !.ArtifactPattern = row.artifact_pattern,
     !.ArtifactSinceStart = (row.artifact_since_start = 1),
     !.ArtifactLastSync = ParseTime(row.artifact_last_sync),
     !.ArtifactSources = row.snapshot_sources]

\* cmdFetch: the sources of the call, <<>> when there are none
FetchSources(e, remotePath, overridePatterns) ==
  LET sources ==
        IF remotePath # <<>>
          THEN <<[Path |-> remotePath,
                  Patterns |-> splitPatterns(e.ArtifactPattern)]>>
          ELSE EffectiveArtifactSources(e)
  IN  IF Len(overridePatterns) > 0
        THEN [k \in 1..Len(sources) |->
                [sources[k] EXCEPT !.Patterns = overridePatterns]]
        ELSE sources

\* cmdFetch from the load of the record to the call of
\* fetchArtifactSources
FetchCommand ==
  /\ pc = "fetchCmd"
  /\ IF ~db.exists
       THEN Return("norows") /\ UNCHANGED <<exp, call>>
       ELSE LET e == loadExperimentByID(db)
                destDir == IF cfg.destDir = "" THEN e.ArtifactDest
                           ELSE cfg.destDir
                sinceStart == IF cfg.sinceStartFlag.set
                                THEN cfg.sinceStartFlag.value
                                ELSE e.ArtifactSinceStart
                sources == FetchSources(e, cfg.remotePath, cfg.patternFlag)
            IN  /\ exp' = e
                /\ IF cfg.remotePath # <<>> /\ cfg.remotePath[1] # "/"
                     THEN Return("usage") /\ UNCHANGED call
                   ELSE IF destDir = ""
                     THEN Return("usage") /\ UNCHANGED call
                   ELSE IF Len(sources) = 0
                     THEN Return("usage") /\ UNCHANGED call
                   ELSE /\ BeginFetch(sources, destDir, sinceStart,
                                      cfg.dryRun)
                        /\ UNCHANGED <<ret, errKind>>
  /\ UNCHANGED <<cfg, db, status, sqCmd, saCmd, now>>
  /\ UNCHANGED <<local, listLog, rsyncLog, dryLog, nSettle>>
  /\ UNCHANGED histVars
  /\ UNCHANGED fnVars
  /\ UNCHANGED cmdVars

\* Variant of the record that a dry run never writes.
FetchRecordSync_DryRunSilent ==
  /\ pc = "fetched"
  /\ cfg.cmd = "fetch"
  /\ \E recordOK \in BOOLEAN :
       IF call.err # ""
         THEN /\ db' = IF recordOK /\ ~call.dryRun
                         THEN recordArtifactSync(db, <<>>, call.err)
                         ELSE db
              /\ Return(IF recordOK THEN "sync" ELSE "syncAndDb")
         ELSE IF call.dryRun
           THEN Return("none") /\ UNCHANGED db
         ELSE /\ db' = IF recordOK
                         THEN recordArtifactSync(db, <<now>>, "")
                         ELSE db
              /\ Return(IF recordOK THEN "none" ELSE "db")
  /\ UNCHANGED <<cfg, exp, status, sqCmd, saCmd, now>>
  /\ UNCHANGED histVars
  /\ UNCHANGED fnVars
  /\ UNCHANGED cmdVars
  /\ UNCHANGED fetchVars

\* cmdFetch: the record of the outcome of fetchArtifactSources
FetchRecordSync ==
  /\ pc = "fetched"
  /\ cfg.cmd = "fetch"
  /\ \E recordOK \in BOOLEAN :
       IF call.err # ""
         THEN /\ db' = IF recordOK
                         THEN recordArtifactSync(db, <<>>, call.err)
                         ELSE db
              /\ Return(IF recordOK THEN "sync" ELSE "syncAndDb")
         ELSE IF call.dryRun
           THEN Return("none") /\ UNCHANGED db
         ELSE /\ db' = IF recordOK
                         THEN recordArtifactSync(db, <<now>>, "")
                         ELSE db
              /\ Return(IF recordOK THEN "none" ELSE "db")
  /\ UNCHANGED <<cfg, exp, status, sqCmd, saCmd, now>>
  /\ UNCHANGED histVars
  /\ UNCHANGED fnVars
  /\ UNCHANGED cmdVars
  /\ UNCHANGED fetchVars

\* the scheduler: the answers of squeue and sacct change with the job, at
\* any moment of the polling loop (they are not read outside it)
SchedulerChange ==
  /\ pc \in {"squeue", "sacct", "sleep", "sleepErr", "persist"}
  /\ sqCmd' \in SqueueOutcomes
  /\ saCmd' \in SacctOutcomes
  /\ <<sqCmd', saCmd'>> # <<sqCmd, saCmd>>
  /\ UNCHANGED <<pc, ret, errKind, cfg, exp, db, status, now>>
  /\ UNCHANGED histVars
  /\ UNCHANGED fnVars
  /\ UNCHANGED cmdVars
  /\ UNCHANGED fetchVars

Step ==
  \/ Submit
  \/ CreateRecord
  \/ UpdateDestination
  \/ QuerySqueue
  \/ QuerySacct
  \/ SleepAfterFailure
  \/ PersistStatus
  \/ PersistCompletion
  \/ SleepInterval
  \/ CheckSources
  \/ SettleDelay
  \/ EnterSource
  \/ ListFiles
  \/ ListSleep
  \/ FilterFiles
  \/ Rsync
  \/ MonitorRecordSync
  \/ FetchCommand
  \/ FetchRecordSync

Next == Step \/ SchedulerChange

Spec == Init /\ [][Next]_vars

\* the program keeps running: a sleep ends, a child process returns
LiveSpec == Spec /\ WF_vars(Step)

\* ------------------------------------------------------------------------
\* fetchArtifactSources on its own
\* ------------------------------------------------------------------------

ArtifactSource2 == [Path |-> P_alt, Patterns |-> <<Pat_json>>]

\* the source lists a caller hands over
SourceLists ==
  { <<>>,
    <<ArtifactSource1>>,
    <<ArtifactSource2>>,
    <<ArtifactSource1, ArtifactSource2>>,
    <<ArtifactSource2, ArtifactSource1>>,
    <<[Path |-> P_out, Patterns |-> <<Pat_bad>>], ArtifactSource2>>,
    <<ArtifactSource1, [Path |-> P_rel, Patterns |-> <<>>]>>,
    <<[Path |-> <<>>, Patterns |-> <<Pat_json>>], ArtifactSource1>> }

InitSources ==
  /\ pc = "fetch"
  /\ ret = "none"
  /\ errKind = "none"
  /\ cfg = [cmd |-> "call"]
  /\ db \in {StoredRow, [StoredRow EXCEPT !.created_at = <<>>]}
  /\ exp = loadExperimentByID(db)
  /\ status = <<>>
  /\ sqCmd = [exit |-> 0, out |-> <<>>]
  /\ saCmd = [exit |-> 0, out |-> <<>>]
  /\ now = FetchTime
  /\ lastResult = <<>>
  /\ lastOrigin = "none"
  /\ nFails = 0
  /\ trace = <<>>
  /\ termVals = {}
  /\ fnArg = <<>>
  /\ fnDone = FALSE
  /\ fnRet = FALSE
  /\ \E sources \in SourceLists, sinceStart \in BOOLEAN, dryRun \in BOOLEAN :
       call = [NoCall EXCEPT !.sources = sources, !.dest = "/dest/1",
                             !.sinceStart = sinceStart, !.dryRun = dryRun,
                             !.idx = 1]
  /\ local = {}
  /\ listLog = <<>>
  /\ rsyncLog = <<>>
  /\ dryLog = <<>>
  /\ nSettle = 0
  /\ NoSubmit

SpecSources ==
  /\ InitSources
  /\ [][EnterSource \/ ListFiles \/ ListSleep \/ FilterFiles \/ Rsync]_vars

\* ------------------------------------------------------------------------
\* isActiveStatus on its own
\* ------------------------------------------------------------------------

\* a function under test at position p, nothing else running
FunctionOnly(p) ==
  /\ pc = p
  /\ ret = "none"
  /\ errKind = "none"
  /\ cfg = [cmd |-> "none"]
  /\ exp = NoExperiment
  /\ db = NoRow
  /\ status = <<>>
  /\ sqCmd = [exit |-> 0, out |-> <<>>]
  /\ saCmd = [exit |-> 0, out |-> <<>>]
  /\ now = StartTime
  /\ lastResult = <<>>
  /\ lastOrigin = "none"
  /\ nFails = 0
  /\ trace = <<>>
  /\ termVals = {}
  /\ fnDone = FALSE
  /\ NoFetch
  /\ NoSubmit

ApplyPatternMatches ==
  /\ pc = "match"
  /\ ~fnDone
  /\ fnDone' = TRUE
  /\ fnRet' = patternMatches(fnArg.exprs, fnArg.root, fnArg.rel)
  /\ UNCHANGED fnArg
  /\ UNCHANGED runVars
  /\ UNCHANGED cmdVars
  /\ UNCHANGED histVars
  /\ UNCHANGED fetchVars

ToLowerChar(c) ==
  IF \E i \in 1..26 : UpperCase[i] = c
    THEN LowerCase[CHOOSE i \in 1..26 : UpperCase[i] = c]
    ELSE c

ApplyIsActiveStatus ==
  /\ pc = "off"
  /\ ~fnDone
  /\ fnDone' = TRUE
  /\ fnRet' = isActiveStatus(fnArg)
  /\ UNCHANGED fnArg
  /\ UNCHANGED runVars
  /\ UNCHANGED cmdVars
  /\ UNCHANGED histVars
  /\ UNCHANGED fetchVars

\* the argument is a status word or a near miss, in upper case, in lower
\* case or with a lower-case first letter, with white space around it
SpecStatus ==
  /\ FunctionOnly("off")
  /\ fnArg \in
       { l \o v \o r :
           l \in {<<>>, <<" ">>, <<"\t", "\n">>},
           r \in {<<>>, <<"\n">>, <<" ", "\r">>},
           v \in UNION
                 { { w,
                     [i \in 1..Len(w) |-> ToLowerChar(w[i])],
                     IF w = <<>> THEN w
                     ELSE <<ToLowerChar(w[1])>> \o Tail(w) } :
                     w \in ActiveStatuses \cup
                             { <<>>, S_UNKNOWN, S_SUBMITTED, S_COMPLETED,
                               <<"F", "A", "I", "L", "E", "D">>, S_CANCELLED,
                               S_RUNNING \o <<"+">>, <<"X">> \o S_PENDING,
                               SubSeq(S_RUNNING, 1, 6),
                               <<"R", "U", "N", " ", "N", "I", "N", "G">> } } }
  /\ fnRet = FALSE
  /\ [][ApplyIsActiveStatus]_vars

\* ------------------------------------------------------------------------
\* cmdRun from the merged configuration to the submission
\* ------------------------------------------------------------------------

\* the configuration after flags, profile, run file and environment are
\* merged: required says that remote, name, log-dir and script are all set
InitConfig ==
  /\ pc = "config"
  /\ ret = "none"
  /\ errKind = "none"
  /\ cfg \in
       [cmd : {"config"},
        required : BOOLEAN,
        artifactRemote : {<<>>, P_out, P_rel},
        artifactDest : {"", "/dest"},
        artifactSources :
          { <<>>,
            <<ArtifactSource1>>,
            <<[Path |-> <<>>, Patterns |-> <<Pat_json>>]>>,
            <<ArtifactSource1, [Path |-> P_rel, Patterns |-> <<>>]>> },
        buildScript : BOOLEAN,
        scriptLocal : BOOLEAN]
  /\ exp = NoExperiment
  /\ db = NoRow
  /\ status = <<>>
  /\ sqCmd = [exit |-> 0, out |-> <<>>]
  /\ saCmd = [exit |-> 0, out |-> <<>>]
  /\ now = StartTime
  /\ lastResult = <<>>
  /\ lastOrigin = "none"
  /\ nFails = 0
  /\ trace = <<>>
  /\ termVals = {}
  /\ fnArg = <<>>
  /\ fnDone = FALSE
  /\ fnRet = FALSE
  /\ NoFetch
  /\ sbCmd \in SubmitOutcomes
  /\ remoteLog = <<>>

\* cmdRun: the checks made before the destination is created
ConfigError(c) ==
  IF ~c.required THEN "remote, name, log-dir, and script are required"
  ELSE IF c.artifactRemote # <<>> /\ Head(c.artifactRemote) # "/"
    THEN "artifact-remote must be an absolute path"
  ELSE IF Len(c.artifactSources) = 0
          /\ (c.artifactRemote = <<>>) # (c.artifactDest = "")
    THEN "artifact-remote and artifact-dest must be provided together"
  ELSE ""

\* cmdRun: the sources of the run, explicit or made of artifact-remote
resolvedSources(c) ==
  LET sources == IF Len(c.artifactSources) = 0 /\ c.artifactRemote # <<>>
                   THEN <<[Path |-> c.artifactRemote,
                           Patterns |-> ensurePatterns(<<>>)]>>
                   ELSE c.artifactSources
  IN  [k \in 1..Len(sources) |->
         [sources[k] EXCEPT !.Patterns = ensurePatterns(@)]]

\* cmdRun: the checks made on the sources
SourcesError(c) ==
  LET sources == resolvedSources(c)
      bad == {k \in 1..Len(sources) :
                sources[k].Path = <<>> \/ Head(sources[k].Path) # "/"}
  IN  IF c.artifactDest # "" /\ Len(sources) = 0
        THEN "artifact sources are required when artifact-dest is set"
      ELSE IF bad = {} THEN ""
      ELSE IF sources[CHOOSE k \in bad : \A j \in bad : k <= j].Path = <<>>
        THEN "artifact source has empty path"
      ELSE "artifact source path must be absolute"

\* cmdRun: the checks of the configuration and the creation of the local
\* destination, which can fail
ValidateConfig ==
  /\ pc = "config"
  /\ IF ConfigError(cfg) # ""
       THEN Return("config")
       ELSE \/ /\ cfg.artifactDest # ""
               /\ Return("mkdir")
            \/ /\ pc' = "build"
               /\ UNCHANGED <<ret, errKind>>
  /\ UNCHANGED <<cfg, exp, db, status, sqCmd, saCmd, now>>
  /\ UNCHANGED histVars
  /\ UNCHANGED fnVars
  /\ UNCHANGED fetchVars
  /\ UNCHANGED cmdVars

\* cmdRun: runRemoteBuildScript over ssh when a build script is configured
RunBuildScript ==
  /\ pc = "build"
  /\ IF cfg.buildScript
       THEN /\ remoteLog' = Append(remoteLog, "build")
            /\ \/ Return("build")
               \/ /\ pc' = "upload"
                  /\ UNCHANGED <<ret, errKind>>
       ELSE /\ pc' = "upload"
            /\ UNCHANGED <<ret, errKind, remoteLog>>
  /\ UNCHANGED <<cfg, exp, db, status, sqCmd, saCmd, now>>
  /\ UNCHANGED histVars
  /\ UNCHANGED fnVars
  /\ UNCHANGED fetchVars
  /\ UNCHANGED sbCmd

\* cmdRun: uploadScript to the remote host when a local script is configured
UploadScript ==
  /\ pc = "upload"
  /\ IF cfg.scriptLocal
       THEN /\ remoteLog' = Append(remoteLog, "upload")
            /\ \/ Return("upload")
               \/ /\ pc' = "resolve"
                  /\ UNCHANGED <<ret, errKind>>
       ELSE /\ pc' = "resolve"
            /\ UNCHANGED <<ret, errKind, remoteLog>>
  /\ UNCHANGED <<cfg, exp, db, status, sqCmd, saCmd, now>>
  /\ UNCHANGED histVars
  /\ UNCHANGED fnVars
  /\ UNCHANGED fetchVars
  /\ UNCHANGED sbCmd

\* cmdRun: the sources are resolved and checked; the run is then configured
ResolveSources ==
  /\ pc = "resolve"
  /\ IF SourcesError(cfg) # ""
       THEN Return("config") /\ UNCHANGED cfg
       ELSE /\ pc' = "submit"
            /\ cfg' = [cmd |-> "run", sources |-> resolvedSources(cfg),
                       dest |-> cfg.artifactDest, sinceStart |-> FALSE]
            /\ UNCHANGED <<ret, errKind>>
  /\ UNCHANGED <<exp, db, status, sqCmd, saCmd, now>>
  /\ UNCHANGED histVars
  /\ UNCHANGED fnVars
  /\ UNCHANGED fetchVars
  /\ UNCHANGED cmdVars

SpecConfig ==
  /\ InitConfig
  /\ [][ValidateConfig \/ RunBuildScript \/ UploadScript
          \/ ResolveSources \/ Submit]_vars

\* ------------------------------------------------------------------------
\* patternMatches on its own
\* ------------------------------------------------------------------------

\* zero, one or two expressions out of \.json$, ^c\.json$, ^/out/, ^sub/
\* and \.csv$
SpecMatch ==
  /\ FunctionOnly("match")
  /\ LET pats == { Pat_json, Pat_c_json,
                   <<"^", "/", "o", "u", "t", "/">>,
                   <<"^", "s", "u", "b", "/">>,
                   <<"\\", ".", "c", "s", "v", "$">> }
     IN  fnArg \in
           [exprs : {<<>>} \cup {<<p>> : p \in pats}
                           \cup {<<p, q>> : p \in pats, q \in pats},
            root : {<<>>, P_out, P_alt},
            rel : {F_a_json, F_b_txt, F_sub_c_json}]
  /\ fnRet = FALSE
  /\ [][ApplyPatternMatches]_vars

\* ------------------------------------------------------------------------
\* EffectiveArtifactSources on its own
\* ------------------------------------------------------------------------

ApplyEffectiveArtifactSources ==
  /\ pc = "effective"
  /\ ~fnDone
  /\ fnDone' = TRUE
  /\ fnRet' = EffectiveArtifactSources(fnArg)
  /\ UNCHANGED fnArg
  /\ UNCHANGED runVars
  /\ UNCHANGED cmdVars
  /\ UNCHANGED histVars
  /\ UNCHANGED fetchVars

\* experiments with and without explicit sources and legacy path, and
\* pattern strings that are empty, blank, padded, with blank lines, CR LF
SpecEffective ==
  /\ FunctionOnly("effective")
  /\ fnArg \in
       { [NoExperiment EXCEPT !.ArtifactSources = srcs,
                              !.ArtifactRemote = remote,
                              !.ArtifactPattern = pattern] :
           srcs \in {<<>>, <<ArtifactSource1>>,
                     <<ArtifactSource2, ArtifactSource1>>},
           remote \in {<<>>, P_out, P_alt},
           pattern \in
             { <<>>,
               <<"\n">>,
               <<" ", "\t">>,
               Pat_json,
               Pat_json \o <<"\n">> \o Pat_c_json,
               <<" ">> \o Pat_json \o <<" ", "\n", "\n">> \o Pat_c_json
                 \o <<"\n">>,
               Pat_json \o <<"\n", " ", "\n">> \o Pat_c_json,
               <<"\t">> \o Pat_c_json \o <<" ">>,
               Pat_c_json \o <<"\r", "\n">> \o Pat_json \o <<"\n">>
                 \o Pat_json } }
  /\ fnRet = <<>>
  /\ [][ApplyEffectiveArtifactSources]_vars

\* ------------------------------------------------------------------------
\* The time predicate of listRemoteFiles on its own
\* ------------------------------------------------------------------------

\* since times, in seconds after an origin; 0 stands for the zero time
MaxSince == 150

ApplyFindNewermt ==
  /\ pc = "cutoff"
  /\ ~fnDone
  /\ fnDone' = TRUE
  /\ fnRet' = findNewermt(fnArg)
  /\ UNCHANGED fnArg
  /\ UNCHANGED runVars
  /\ UNCHANGED cmdVars
  /\ UNCHANGED histVars
  /\ UNCHANGED fetchVars

SpecCutoff ==
  /\ FunctionOnly("cutoff")
  /\ fnArg \in 0..MaxSince
  /\ fnRet = <<>>
  /\ [][ApplyFindNewermt]_vars

\* ------------------------------------------------------------------------
\* Properties
\* ------------------------------------------------------------------------

\* the status poller is inside its loop
InLoop == pc \in {"squeue", "sacct", "sleepErr", "persist", "complete", "sleep"}

\* the status poller has left its loop by the break
LeftLoop ==
  /\ cfg.cmd = "run"
  /\ \/ pc \in {"sources", "settle"} \cup InFetch
     \/ pc = "done" /\ db.exists /\ db.completed_at # <<>>

\* the result of the most recent successful query, SUBMITTED before it
LastOK == IF lastResult = <<>> THEN S_SUBMITTED ELSE lastResult[1]

\* a successful query has returned a terminal status
SawTerminal == lastResult # <<>> /\ ~NamesActive(lastResult[1])

\* ---- C1 ----------------------------------------------------------------
\* C1 as stated: once a successful query has returned a terminal status,
\* no further query or sleep happens, the status and a completion time are
\* in the store as soon as the poller is past its two writes, and the
\* persisted status does not change afterwards.
C1_Original ==
  /\ [](SawTerminal =>
          /\ pc \notin {"squeue", "sacct", "sleep", "sleepErr"}
          /\ (pc \notin {"persist", "complete"} =>
                db.job_status = lastResult[1] /\ db.completed_at # <<>>))
  /\ [][SawTerminal /\ pc # "persist" => db'.job_status = db.job_status]_vars

\* C1 (amended): once a successful query has returned a terminal status, no
\* further query or sleep happens and the persisted status does not change
\* after its write; the status and a completion time are persisted and the
\* loop is left, unless one of the two store writes fails, in which case
\* monitorExperiment returns that error at once.
C1_TerminalEndsPolling ==
  /\ [](SawTerminal =>
          /\ pc \notin {"squeue", "sacct", "sleep", "sleepErr"}
          /\ (pc \notin {"persist", "complete"} =>
                \/ db.job_status = lastResult[1] /\ db.completed_at # <<>>
                \/ pc = "done" /\ ret = "err" /\ errKind = "db"))
  /\ [][SawTerminal /\ pc # "persist" => db'.job_status = db.job_status]_vars

C1_Witness ==
  /\ SawTerminal
  /\ pc = "sources"
  /\ db.job_status = lastResult[1]
  /\ db.completed_at # <<>>

\* ---- C2 ----------------------------------------------------------------
\* C2: a status query that fails (the queue view exits non-zero) leaves the
\* store unchanged and leads to the sleep, the sleep leads to the next
\* query, and neither step makes the command return; this is so however
\* many queries have failed before.
C2_FailedQueryRetries ==
  [][/\ (pc = "squeue" /\ exp.JobID # <<>> /\ sqCmd.exit # 0 /\ pc' # pc) =>
          pc' = "sleepErr" /\ db' = db /\ ret' = "none"
     /\ (pc = "sleepErr" /\ pc' # pc) =>
          /\ pc' = "squeue" /\ db' = db /\ ret' = "none"
          /\ now' = Min(now + defaultPollInterval, MaxNow)]_vars

C2_Witness == pc = "squeue" /\ nFails = MaxFails /\ lastOrigin = "squeueFail"

\* ---- C3 ----------------------------------------------------------------
\* C3 as stated: at every point of a run where no query result waits for
\* its write (each result is written before any sleep or further query),
\* the persisted status is SUBMITTED before the first successful query and
\* the result of the most recent successful query after it.
C3_Original ==
  (cfg.cmd = "run" /\ db.exists /\ pc # "persist") => db.job_status = LastOK

\* C3 (amended): the same, except that a query result whose store write
\* fails is not persisted: the run then ends with that error and the store
\* is left as it was.
C3_PersistedIsLastResult ==
  /\ []((/\ cfg.cmd = "run"
          /\ db.exists
          /\ pc # "persist"
          /\ ~(pc = "done" /\ errKind = "db" /\ ~LeftLoop)) =>
          db.job_status = LastOK)
  /\ [][(pc = "persist" /\ errKind' = "db") =>
          db' = db /\ pc' = "done" /\ ret' = "err"]_vars

C3_Witness ==
  /\ pc = "sleep"
  /\ lastResult # <<>>
  /\ db.job_status = lastResult[1]
  /\ db.job_status # S_SUBMITTED

\* ---- C4 ----------------------------------------------------------------
\* C4 as stated: a status query in which a remote status command failed
\* never ends with a terminal status persisted and the loop about to end.
C4_Original ==
  ~(lastOrigin \in {"squeueFail", "sacctFail"} /\ pc = "complete")

\* C4 (amended): a failure of the queue view never causes a status to be
\* persisted or the loop to end, and leaves the store unchanged; a failure
\* of the accounting view is reported as UNKNOWN, which is terminal.
C4_QueueFailureNeverTerminal ==
  /\ [](lastOrigin = "squeueFail" => pc \in {"sleepErr", "squeue", "sacct"})
  /\ [](lastOrigin = "sacctFail" =>
          lastResult = <<S_UNKNOWN>> /\ ~NamesActive(S_UNKNOWN))
  /\ [][(pc = "squeue" /\ exp.JobID # <<>> /\ sqCmd.exit # 0) => db' = db]_vars

C4_Witness ==
  lastOrigin = "sacctFail" /\ pc = "sources" /\ db.job_status = S_UNKNOWN

\* ---- C5 ----------------------------------------------------------------
\* C5: isActiveStatus(S) is true iff S is one of the seven active names in
\* any letter case with whitespace around it; the empty string, UNKNOWN and
\* SUBMITTED are terminal.
C5_ActiveIffInFixedSet ==
  fnDone =>
    /\ fnRet <=> NamesActive(fnArg)
    /\ fnArg \in {<<>>, S_UNKNOWN, S_SUBMITTED} => ~fnRet

C5_Witness == fnDone /\ fnRet /\ fnArg \notin ActiveStatuses

\* ---- C6 ----------------------------------------------------------------
\* the queue view printed nothing but whitespace
QueueEmpty(c) == \A i \in 1..Len(c.out) : IsSpace(c.out[i])

\* C6: a non-zero exit of the queue view is returned as an error and the
\* accounting view is not asked; a non-empty queue result is returned as
\* the status and the accounting view is not asked; the accounting view is
\* asked only after the queue view succeeded with an empty result.
C6_QueueViewFirst ==
  [][/\ (pc = "squeue" /\ exp.JobID # <<>> /\ pc' # pc) =>
          /\ sqCmd.exit # 0 =>
               pc' = "sleepErr" /\ status' = <<>> /\ lastResult' = lastResult
          /\ (sqCmd.exit = 0 /\ ~QueueEmpty(sqCmd)) =>
               /\ pc' = "persist"
               /\ status' = squeueResult[sqCmd].status
               /\ status' # <<>>
          /\ (sqCmd.exit = 0 /\ QueueEmpty(sqCmd)) => pc' = "sacct"
     /\ (pc' = "sacct" /\ pc # "sacct") =>
          pc = "squeue" /\ sqCmd.exit = 0 /\ QueueEmpty(sqCmd)]_vars

C6_Witness == pc = "sleepErr" /\ lastOrigin = "squeueFail" /\ status = <<>>

\* ---- C7 ----------------------------------------------------------------
\* C7: after an empty queue view, a failed accounting view gives UNKNOWN
\* without an error, an empty accounting result gives UNKNOWN, and a
\* non-empty accounting result is the status.
C7_AccountingBestEffort ==
  [][(pc = "sacct" /\ pc' # pc) =>
       /\ pc' = "persist"
       /\ status' = IF saCmd.exit # 0 THEN S_UNKNOWN
                    ELSE IF sacctResult[saCmd].status = <<>> THEN S_UNKNOWN
                    ELSE sacctResult[saCmd].status]_vars

C7_Witness == pc = "persist" /\ lastOrigin = "sacctFail" /\ status = S_UNKNOWN

\* ---- C8 ----------------------------------------------------------------
\* The job is over for the scheduler when the queue view succeeds and shows
\* no active status, and the accounting view resolves to no active status.
\* C8: if from some time on the queue view succeeds and every status query
\* resolves to a terminal status, the poller eventually is out of its loop;
\* and it has left the loop by the break only after a successful query
\* returned a terminal status.
C8_PollingEnds ==
  /\ (<>[](LET q == queryJobStatusQueue(J_4242, sqCmd)
            IN  /\ ~q.err
                /\ q.next = "return" => ~NamesActive(q.status)
                /\ ~NamesActive(queryJobStatusAcct(saCmd).status)))
       => <>(pc \in {"sources", "done"})
  /\ [](LeftLoop => SawTerminal)

C8_Witness == pc = "done" /\ ret = "ok" /\ trace = <<"S", "A", "T">>

\* ---- C9 ----------------------------------------------------------------
\* C9 as stated: when the poller has left its loop, the statuses written
\* were SUBMITTED, then one or more active ones, then one terminal status,
\* which is the final value.
C9_Original ==
  LeftLoop =>
    /\ trace = <<"S", "A", "T">>
    /\ termVals = {db.job_status}

\* C9 (amended): when the poller has left its loop, the statuses written
\* were SUBMITTED, then zero or more active ones, then one terminal status,
\* which is the final value; the poller never writes two different
\* terminal statuses.
C9_StatusProgression ==
  /\ LeftLoop =>
       /\ trace \in {<<"S", "T">>, <<"S", "A", "T">>}
       /\ termVals = {db.job_status}
       /\ ~NamesActive(db.job_status)
  /\ Cardinality(termVals) <= 1

C9_Witness == LeftLoop /\ trace = <<"S", "T">> /\ pc = "settle"

\* ---- C10 ---------------------------------------------------------------
\* C10: the completion time is set only with a terminal status, in the
\* store and in memory; it is unset when the record is created; once set
\* in the store it is never changed.
C10_CompletionOnlyWhenTerminal ==
  /\ [](db.completed_at # <<>> => db.exists /\ ~NamesActive(db.job_status))
  /\ [](exp.CompletedAt # 0 => ~NamesActive(exp.JobStatus))
  /\ [][(~db.exists /\ db'.exists) => db'.completed_at = <<>>]_vars
  /\ [][db.completed_at # <<>> => db'.completed_at = db.completed_at]_vars

C10_Witness ==
  /\ pc = "done"
  /\ db.completed_at # <<>>
  /\ db.artifact_last_sync # <<>>

\* ---- C11 ---------------------------------------------------------------
\* a remote listing or a transfer has been issued
Discovering == listLog # <<>> \/ rsyncLog # <<>> \/ dryLog # <<>>

\* a terminal status and a completion time are in the store
CompletionPersisted ==
  db.exists /\ db.completed_at # <<>> /\ ~NamesActive(db.job_status)

\* C11: in a run, the job is submitted and its record created before the
\* first poll; no remote listing and no transfer is issued before a
\* terminal status with a completion time is in the store; the settle delay
\* of 10 seconds is slept exactly once, after that write and before the
\* first listing.
C11_PhasesInOrder ==
  /\ [](cfg.cmd = "run" =>
          /\ (pc # "submit" /\ ret = "none" => exp.JobID # <<>>)
          /\ (InLoop => db.exists)
          /\ (Discovering => CompletionPersisted /\ nSettle = 1)
          /\ (pc \in InFetch => nSettle = 1)
          /\ nSettle <= 1)
  /\ [][nSettle' # nSettle =>
          /\ ~Discovering
          /\ CompletionPersisted
          /\ nSettle' = nSettle + 1
          /\ now' = now + 10]_vars

C11_Witness ==
  /\ cfg.cmd = "run"
  /\ nSettle = 1
  /\ Len(listLog) >= 2
  /\ Len(rsyncLog) = 1
  /\ pc = "done"

\* ---- C12 ---------------------------------------------------------------
\* the run was configured with an artifact source and a destination
SyncConfigured == Len(cfg.sources) > 0 /\ cfg.dest # ""

\* C12: in a run, after the terminal status the monitor goes on to the
\* artifact sync exactly if the experiment has an artifact source and a
\* destination; without them it returns success at once, and no listing,
\* no transfer and no write of the last-sync time or error ever happens.
C12_SyncIffConfigured ==
  /\ [][(cfg.cmd = "run" /\ pc = "sources" /\ pc' # pc) =>
          IF SyncConfigured
            THEN pc' = "settle" /\ ret' = "none"
            ELSE pc' = "done" /\ ret' = "ok" /\ db' = db]_vars
  /\ []((cfg.cmd = "run" /\ ~SyncConfigured) =>
          /\ ~Discovering
          /\ nSettle = 0
          /\ pc \notin {"settle"} \cup InFetch
          /\ db.artifact_last_sync = <<>>
          /\ db.artifact_last_error = "")
  /\ []((cfg.cmd = "run" /\ pc \in {"settle"} \cup InFetch) =>
          SyncConfigured /\ CompletionPersisted)

C12_Witness ==
  /\ cfg.cmd = "run"
  /\ Len(cfg.sources) > 0
  /\ cfg.dest = ""
  /\ pc = "done"
  /\ ret = "ok"
  /\ CompletionPersisted

\* ---- C13 ---------------------------------------------------------------
\* fetchArtifactSources has returned to the monitor or to a fetch that is
\* not a dry run, and the command is over
SyncAttempted ==
  /\ pc = "done"
  /\ call.idx > 0
  /\ cfg.cmd = "run" \/ (cfg.cmd = "fetch" /\ ~call.dryRun)

\* C13 as stated: after an artifact sync, a failure is in the last-sync
\* error and is what the command returns; after a success the last-sync
\* error is empty and the last-sync time is set.
C13_Original ==
  SyncAttempted =>
    IF call.err # ""
      THEN /\ db.artifact_last_error = call.err
           /\ ret = "err"
           /\ errKind = "sync"
      ELSE /\ db.artifact_last_error = ""
           /\ db.artifact_last_sync # <<>>

\* C13 (amended): the same, unless the store write that records the outcome
\* fails: the command then returns an error and the row is left as it was.
C13_SyncOutcomeRecorded ==
  /\ [](SyncAttempted =>
          IF errKind \in {"db", "syncAndDb"}
            THEN ret = "err"
          ELSE IF call.err # ""
            THEN /\ db.artifact_last_error = call.err
                 /\ ret = "err"
                 /\ errKind = "sync"
          ELSE /\ db.artifact_last_error = ""
               /\ db.artifact_last_sync = <<now>>
               /\ ret = "ok")
  /\ [][(pc = "fetched" /\ errKind' \in {"db", "syncAndDb"}) => db' = db]_vars

C13_Witness ==
  /\ SyncAttempted
  /\ cfg.cmd = "fetch"
  /\ call.err = "rsync failed"
  /\ db.artifact_last_error = "rsync failed"
  /\ ret = "err"

\* ---- C14 ---------------------------------------------------------------
\* the entries of a log that belong to source k
EntriesOf(log, k) == SelectSeq(log, LAMBDA e : e.src = k)

\* the sources of the entries of a log never go back
InSourceOrder(log) ==
  \A i \in 1..Len(log) : \A j \in i..Len(log) : log[i].src <= log[j].src

\* C14: fetchArtifactSources takes the sources in their order and copies
\* into the one destination of the call; a failed listing, a pattern that
\* does not compile and a failed transfer each end the call with that error
\* at the source where it happened, nothing is listed or transferred after
\* it, and what was copied before stays in the destination.
C14_FirstFailureAborts ==
  /\ [](/\ InSourceOrder(listLog)
        /\ InSourceOrder(rsyncLog)
        /\ \A i \in 1..Len(rsyncLog) : rsyncLog[i].dest = call.dest
        /\ \A i \in 1..Len(listLog) : listLog[i].src <= call.idx
        /\ \A i \in 1..Len(rsyncLog) : rsyncLog[i].src <= call.idx)
  /\ [](\A i \in 1..Len(listLog) :
          ~listLog[i].ok =>
             /\ i = Len(listLog)
             /\ call.err = "remote find failed"
             /\ call.idx = listLog[i].src)
  /\ [](\A i \in 1..Len(rsyncLog) :
          ~rsyncLog[i].ok =>
             /\ i = Len(rsyncLog)
             /\ call.err = "rsync failed"
             /\ call.idx = rsyncLog[i].src)
  /\ [][(/\ pc = "filter"
          /\ call.files # <<>>
          /\ \E k \in 1..Len(call.sources[call.idx].Patterns) :
               call.sources[call.idx].Patterns[k] = Pat_bad) =>
          call'.err = "compile pattern" /\ call'.idx = call.idx]_vars
  /\ [](call.err # "" => pc = "fetched")
  /\ [][call.err # "" =>
          listLog' = listLog /\ rsyncLog' = rsyncLog /\ dryLog' = dryLog]_vars
  /\ [][local \subseteq local']_vars

C14_Witness ==
  /\ Len(call.sources) = 2
  /\ call.idx = 2
  /\ call.err = "remote find failed"
  /\ Len(EntriesOf(rsyncLog, 1)) = 1
  /\ F_b_txt \in local
  /\ pc = "fetched"

\* ---- C15 ---------------------------------------------------------------
\* the files of the last listing of source k, <<>> if it has none
Discovered(k) ==
  LET es == EntriesOf(listLog, k)
  IN  IF es = <<>> THEN <<>> ELSE es[Len(es)].files

\* the discovered files of source k that pass its patterns
Matched(k) ==
  SelectSeq(Discovered(k),
            LAMBDA rel : patternMatches(ensurePatterns(call.sources[k].Patterns),
                                        call.sources[k].Path, rel))

\* fetchArtifacts has returned without error for source k
Processed(k) == k < call.idx

\* C15 as stated: the transfer utility is invoked exactly once, with the
\* whole matched list, for each processed source that has a matched path,
\* and not at all for a source whose discovered or matched set is empty.
C15_Original ==
  \A k \in 1..Len(call.sources) :
    Processed(k) =>
      IF Matched(k) # <<>>
        THEN /\ Len(EntriesOf(rsyncLog, k)) = 1
             /\ EntriesOf(rsyncLog, k)[1].manifest = Matched(k)
        ELSE EntriesOf(rsyncLog, k) = <<>>

\* C15 (amended): the same for a call that is not a dry run; a dry run never
\* invokes the transfer utility and prints the matched list instead. The
\* utility is never invoked twice for a source, and every invocation has
\* the whole matched list as its manifest.
C15_OneTransferPerSource ==
  /\ \A k \in 1..Len(call.sources) :
       /\ Len(EntriesOf(rsyncLog, k)) <= 1
       /\ \A i \in 1..Len(EntriesOf(rsyncLog, k)) :
            /\ EntriesOf(rsyncLog, k)[i].manifest = Matched(k)
            /\ Matched(k) # <<>>
       /\ Processed(k) =>
            IF Matched(k) # <<>> /\ ~call.dryRun
              THEN Len(EntriesOf(rsyncLog, k)) = 1
              ELSE EntriesOf(rsyncLog, k) = <<>>
       /\ (Processed(k) /\ call.dryRun /\ Matched(k) # <<>>) =>
            /\ Len(EntriesOf(dryLog, k)) = 1
            /\ EntriesOf(dryLog, k)[1].rels = Matched(k)
  /\ call.dryRun => rsyncLog = <<>>

C15_Witness ==
  /\ ~call.dryRun
  /\ Len(call.sources) = 2
  /\ call.idx = 3
  /\ pc = "fetched"
  /\ Len(EntriesOf(rsyncLog, 2)) = 1
  /\ Discovered(1) # <<>>
  /\ Matched(1) = <<>>
  /\ EntriesOf(rsyncLog, 1) = <<>>

\* ---- C16 ---------------------------------------------------------------
\* C16: a listing that returned a file is the last listing of its source,
\* and the discovery ends with the files of that listing.
C16_StopsAtFirstFiles ==
  /\ [](\A i \in 1..Len(listLog) :
          listLog[i].files # <<>> =>
            \A j \in (i + 1)..Len(listLog) : listLog[j].src # listLog[i].src)
  /\ [][(pc = "list" /\ listLog'[Len(listLog')].files # <<>>) =>
          /\ pc' = "filter"
          /\ call'.files = listLog'[Len(listLog')].files
          /\ call'.idx = call.idx
          /\ call'.err = ""]_vars

C16_Witness ==
  /\ ~call.sinceStart
  /\ pc = "filter"
  /\ call.idx = 1
  /\ Len(listLog) = 6
  /\ \A i \in 1..5 : listLog[i].ok /\ listLog[i].files = <<>>
  /\ listLog[6].files # <<>>

\* ---- C17 ---------------------------------------------------------------
\* every listing of source k so far succeeded and returned no file
AllEmpty(k) ==
  \A i \in 1..Len(listLog) :
    listLog[i].src = k => listLog[i].ok /\ listLog[i].files = <<>>

\* the number of listings after which discovery gives up
GiveUpAfter == IF call.sinceStart THEN 12 ELSE 6

\* C17: when every listing of a source returns no file, discovery stops
\* after exactly 6 listings per strategy, 6 without since-start and 12 with
\* it, and the source ends without error and without a transfer; no source
\* is ever listed more often than that.
C17_GivesUpAfterSixPerStrategy ==
  \A k \in 1..Len(call.sources) :
    /\ Len(EntriesOf(listLog, k)) <= GiveUpAfter
    /\ (AllEmpty(k) /\ EntriesOf(listLog, k) # <<>>) =>
         /\ ~(call.idx = k /\ call.err # "")
         /\ EntriesOf(rsyncLog, k) = <<>>
         /\ EntriesOf(dryLog, k) = <<>>
         /\ (Processed(k) \/ (call.idx = k /\ pc = "filter")) <=>
               Len(EntriesOf(listLog, k)) = GiveUpAfter

C17_Witness ==
  /\ call.sinceStart
  /\ Len(call.sources) = 2
  /\ call.idx = 2
  /\ pc = "list"
  /\ AllEmpty(1)
  /\ Len(EntriesOf(listLog, 1)) = 12
  /\ call.err = ""

\* ---- C18 ---------------------------------------------------------------
\* listing i was made with a time predicate
Filtered(i) == listLog[i].newermt # <<>>

\* the listings of the source of listing i that were made before it
EarlierOfSameSource(i) ==
  {j \in 1..(i - 1) : listLog[j].src = listLog[i].src}

\* C18: with since-start, for each source every listing with a time
\* predicate comes before every listing without one, and a listing without
\* one is made only after 6 listings with one, all of which returned no
\* file; without since-start no listing has a time predicate.
C18_FilteredStrategyFirst ==
  \A i \in 1..Len(listLog) :
    IF ~call.sinceStart THEN ~Filtered(i)
    ELSE IF Filtered(i)
      THEN \A j \in EarlierOfSameSource(i) : Filtered(j)
      ELSE LET f == {j \in EarlierOfSameSource(i) : Filtered(j)}
           IN  /\ Cardinality(f) = 6
               /\ \A j \in f : listLog[j].ok /\ listLog[j].files = <<>>

C18_Witness ==
  /\ call.sinceStart
  /\ Len(listLog) = 7
  /\ \A i \in 1..6 : Filtered(i)
  /\ ~Filtered(7)
  /\ listLog[7].files # <<>>

\* ---- C19 ---------------------------------------------------------------
\* the modification time of a remote file, by its relative path
Mtime(rel) ==
  (CHOOSE f \in {File_a, File_b, File_c} : f.name = rel).mtime

\* C19 as stated: with since-start, no file modified at or before the start
\* of the experiment minus the grace period of 120 seconds is in a transfer
\* manifest or in a dry-run listing.
C19_OnlyFilesAfterCutoff ==
  call.sinceStart =>
    /\ \A i \in 1..Len(rsyncLog) : \A k \in 1..Len(rsyncLog[i].manifest) :
         Mtime(rsyncLog[i].manifest[k]) > exp.CreatedAt - 120
    /\ \A i \in 1..Len(dryLog) : \A k \in 1..Len(dryLog[i].rels) :
         Mtime(dryLog[i].rels[k]) > exp.CreatedAt - 120

\* ---- C20 ---------------------------------------------------------------
\* C20: for a since time T the find command gets the time predicate with
\* the epoch T - 120; for the zero time it gets no time predicate.
C20_CutoffIsSinceMinusGrace ==
  fnDone =>
    IF fnArg = 0 THEN fnRet = <<>> ELSE fnRet = <<fnArg - 120>>

C20_Witness == fnDone /\ fnArg = 100 /\ fnRet = <<0 - 20>>

\* ---- C21 ---------------------------------------------------------------
\* the three texts an expression is tried on: the relative path, the path
\* joined onto the root, and the final segment, which is the suffix
\* without a slash that is the whole path or follows a slash
Candidates(root, rel) ==
  {rel, IF root = <<>> THEN rel ELSE root \o <<"/">> \o rel}
    \cup {seg \in {SubSeq(rel, i, Len(rel)) : i \in 1..Len(rel)} :
            /\ \A i \in 1..Len(seg) : seg[i] # "/"
            /\ \/ rel = seg
               \/ /\ Len(rel) > Len(seg)
                  /\ SubSeq(rel, Len(rel) - Len(seg), Len(rel))
                       = <<"/">> \o seg}

IsMatchingSublist(list, k) ==
  LET found == Discovered(k)
      pats == ensurePatterns(call.sources[k].Patterns)
      kept == {i \in 1..Len(found) :
                 \/ pats = <<>>
                 \/ \E j \in 1..Len(pats) :
                      \E t \in Candidates(call.sources[k].Path, found[i]) :
                        MatchString(pats[j], t)}
  IN  /\ Len(list) = Cardinality(kept)
      /\ \A n \in 1..Len(list) :
           \E i \in kept :
             /\ Cardinality({m \in kept : m <= i}) = n
             /\ list[n] = found[i]

\* C22: every manifest handed to rsync, and every list a dry run prints, is
\* the sub-list of the discovered relative paths of its source that match,
\* in discovery order, nothing added, dropped or repeated.
C22_ManifestIsMatchingSublist ==
  /\ \A i \in 1..Len(rsyncLog) :
       IsMatchingSublist(rsyncLog[i].manifest, rsyncLog[i].src)
  /\ \A i \in 1..Len(dryLog) :
       IsMatchingSublist(dryLog[i].rels, dryLog[i].src)

C22_Witness ==
  /\ call.sources = <<ArtifactSource2>>
  /\ Discovered(1) = <<F_a_json, F_b_txt, F_sub_c_json>>
  /\ Len(rsyncLog) = 1
  /\ rsyncLog[1].manifest = <<F_a_json, F_sub_c_json>>

\* ---- C23 ---------------------------------------------------------------
\* C23: a source with a malformed pattern never gets a remote listing or a
\* transfer, and its fetch never returns without an error.
C23_MalformedReportedFirst ==
  \A k \in 1..Len(call.sources) :
    (\E j \in 1..Len(ensurePatterns(call.sources[k].Patterns)) :
       ~regexpCompiles(ensurePatterns(call.sources[k].Patterns)[j])) =>
      /\ EntriesOf(listLog, k) = <<>>
      /\ EntriesOf(rsyncLog, k) = <<>>
      /\ ~Processed(k)

\* ---- C24 ---------------------------------------------------------------
\* C24: when the run command ends with a configuration error, it has issued
\* no remote command: no build script, no upload, no submission.
C24_ConfigErrorsBeforeRemote ==
  (pc = "done" /\ errKind = "config") => remoteLog = <<>>

\* ---- C25 ---------------------------------------------------------------
\* C25: every remote listing, every transfer and every dry-run listing is
\* for a source whose path is absolute; a source whose path is empty or
\* relative ends the call with an error.
C25_OnlyAbsoluteSources ==
  LET IsAbsolute(path) == Len(path) >= 1 /\ Head(path) = "/"
  IN  /\ \A i \in 1..Len(listLog) :
           IsAbsolute(call.sources[listLog[i].src].Path)
      /\ \A i \in 1..Len(rsyncLog) :
           /\ IsAbsolute(call.sources[rsyncLog[i].src].Path)
           /\ IsAbsolute(rsyncLog[i].root)
      /\ \A i \in 1..Len(dryLog) :
           IsAbsolute(call.sources[dryLog[i].src].Path)
      /\ \A k \in 1..Len(call.sources) :
           ~IsAbsolute(call.sources[k].Path) => ~Processed(k)

C25_Witness ==
  /\ call.sources = <<ArtifactSource1, [Path |-> P_rel, Patterns |-> <<>>]>>
  /\ pc = "fetched"
  /\ call.idx = 2
  /\ call.err = "remote-path must be absolute"
  /\ Len(rsyncLog) = 1
  /\ EntriesOf(listLog, 2) = <<>>

\* ---- C26 ---------------------------------------------------------------
\* ps is the list of the non-blank lines of s, trimmed, in order
\* a line lies between two neighbours of 0, the newlines and Len(s) + 1
IsSplitOf(ps, s) ==
  LET bounds == {0, Len(s) + 1} \cup {i \in 1..Len(s) : s[i] = "\n"}
      Core(a) ==
        LET b == CHOOSE n \in bounds :
                   n > a /\ \A m \in bounds : m > a => n <= m
            ink == {i \in (a + 1)..(b - 1) : ~IsSpace(s[i])}
        IN  IF ink = {} THEN <<>>
            ELSE SubSeq(s, CHOOSE i \in ink : \A j \in ink : i <= j,
                           CHOOSE i \in ink : \A j \in ink : j <= i)
      kept == {a \in bounds \ {Len(s) + 1} : Core(a) # <<>>}
  IN  /\ Len(ps) = Cardinality(kept)
      /\ \A n \in 1..Len(ps) :
           \E a \in kept :
             /\ Cardinality({m \in kept : m <= a}) = n
             /\ ps[n] = Core(a)

\* C26: EffectiveArtifactSources returns the configured sources when there
\* is one; otherwise, with a recorded legacy path, one source of that path
\* and the split pattern string; otherwise none.
C26_EffectiveSources ==
  (pc = "effective" /\ fnDone) =>
    IF fnArg.ArtifactSources # <<>>
      THEN fnRet = fnArg.ArtifactSources
    ELSE IF fnArg.ArtifactRemote # <<>>
      THEN /\ Len(fnRet) = 1
           /\ DOMAIN fnRet[1] = {"Path", "Patterns"}
           /\ fnRet[1].Path = fnArg.ArtifactRemote
           /\ IsSplitOf(fnRet[1].Patterns, fnArg.ArtifactPattern)
    ELSE fnRet = <<>>

C26_Witness ==
  /\ pc = "effective"
  /\ fnDone
  /\ fnArg.ArtifactSources = <<>>
  /\ fnArg.ArtifactRemote = P_alt
  /\ Len(fnArg.ArtifactPattern) = Len(Pat_json) + Len(Pat_c_json) + 5
  /\ fnRet = <<[Path |-> P_alt, Patterns |-> <<Pat_json, Pat_c_json>>]>>
  /\ fnRet = <<[ArtifactSource2 EXCEPT !.Patterns = <<Pat_json, Pat_c_json>>]>>

\* ---- C27 ---------------------------------------------------------------
\* C27: a dry run never invokes rsync and copies nothing; what it prints
\* for a source is each matched path joined onto the root of the source,
\* after the listings of that source and only once.
C27_DryRunTransfersNothing ==
  /\ call.dryRun =>
       /\ rsyncLog = <<>>
       /\ local = {}
       /\ pc # "rsync"
       /\ \A i \in 1..Len(dryLog) :
            LET e == dryLog[i]
                root == call.sources[e.src].Path
            IN  /\ Len(e.paths) = Len(e.rels)
                /\ e.rels # <<>>
                /\ IsMatchingSublist(e.rels, e.src)
                /\ \A n \in 1..Len(e.rels) :
                     e.paths[n] = root \o <<"/">> \o e.rels[n]
                /\ Processed(e.src)
                /\ Len(EntriesOf(dryLog, e.src)) = 1
  /\ ~call.dryRun => dryLog = <<>>

C27_Witness ==
  /\ call.dryRun
  /\ call.sources = <<ArtifactSource2>>
  /\ pc = "fetched"
  /\ call.err = ""
  /\ Len(dryLog) = 1
  /\ dryLog[1].paths =
       << <<"/", "a", "l", "t", "/", "a", ".", "j", "s", "o", "n">>,
          <<"/", "a", "l", "t", "/", "s", "u", "b", "/",
            "c", ".", "j", "s", "o", "n">> >>
  /\ Len(listLog) >= 1

\* ---- C28 ---------------------------------------------------------------
\* C28: a fetch command, whatever it overrides, leaves the record as it
\* found it except for the last-sync time and the last-sync error: the
\* recorded source path, destination, pattern string, since-start flag, job
\* status and completion time are never written.
C28_FetchWritesOnlySyncState ==
  [][cfg.cmd = "fetch" =>
       [db' EXCEPT !.artifact_last_sync = <<>>, !.artifact_last_error = ""]
         = [db EXCEPT !.artifact_last_sync = <<>>,
                      !.artifact_last_error = ""]]_vars

C28_Witness ==
  /\ cfg.cmd = "fetch"
  /\ cfg.remotePath = P_alt
  /\ cfg.destDir = "/other"
  /\ cfg.patternFlag # <<>>
  /\ cfg.sinceStartFlag.set
  /\ pc = "done"
  /\ rsyncLog # <<>>
  /\ db.artifact_last_sync # <<>>
  /\ db.artifact_remote = P_out
  /\ db.artifact_dest = "/dest/1"
  /\ db.artifact_since_start = 0

\* ---- C29 ---------------------------------------------------------------
\* sbatch has been invoked this many times
Submissions == Len(SelectSeq(remoteLog, LAMBDA c : c = "sbatch"))

\* C29: a run invokes sbatch at most once; when sbatch exits non-zero or
\* prints no token the run ends with an error, without a record and without
\* a status query; otherwise the job id is the last whitespace-delimited
\* token of the output, and it is not empty.
C29_SubmitOnceAndParse ==
  /\ [](Submissions <= 1)
  /\ []((cfg.cmd = "run" /\ Submissions = 0) =>
          pc = "submit" /\ ~db.exists /\ lastOrigin = "none")
  /\ []((cfg.cmd = "run" /\ Submissions = 1) =>
          IF \/ sbCmd.exit # 0
             \/ \A i \in 1..Len(sbCmd.out) : IsSpace(sbCmd.out[i])
            THEN /\ pc = "done"
                 /\ ret = "err"
                 /\ errKind = "submit"
                 /\ ~db.exists
                 /\ lastOrigin = "none"
                 /\ trace = <<>>
            ELSE /\ exp.JobID # <<>>
                 /\ \A i \in 1..Len(exp.JobID) : ~IsSpace(exp.JobID[i])
                 /\ \E a \in 0..(Len(sbCmd.out) - Len(exp.JobID)) :
                      /\ SubSeq(sbCmd.out, a + 1, a + Len(exp.JobID))
                           = exp.JobID
                      /\ a > 0 => IsSpace(sbCmd.out[a])
                      /\ \A i \in (a + Len(exp.JobID) + 1)..Len(sbCmd.out) :
                           IsSpace(sbCmd.out[i])
                 /\ errKind # "submit"
                 /\ db.exists => db.job_id = exp.JobID)

C29_Witness ==
  /\ cfg.cmd = "run"
  /\ Submissions = 1
  /\ Len(sbCmd.out) > 20
  /\ sbCmd.out[1] = "\t"
  /\ exp.JobID = <<"7", "7">>
  /\ db.exists
  /\ pc = "sleep"

\* ---- C30 ---------------------------------------------------------------
\* the record is created by the INSERT of the run, once, and stays; the
\* poller writes status and completion time, the transfer phase the
\* last-sync columns
CreatedOnce ==
  /\ [][(~db.exists /\ db'.exists) =>
          /\ pc = "create"
          /\ db'.job_status = S_SUBMITTED
          /\ db'.completed_at = <<>>
          /\ db'.artifact_last_sync = <<>>]_vars
  /\ [][db.exists => db'.exists /\ pc' # "create"]_vars
  /\ [](cfg.cmd = "run" /\ (InLoop \/ LeftLoop) => db.exists)
  /\ [][(db.exists /\ <<db'.job_status, db'.completed_at>> #
                       <<db.job_status, db.completed_at>>) =>
          pc \in {"persist", "complete"}]_vars
  /\ [][(db.exists /\ <<db'.artifact_last_sync, db'.artifact_last_error>> #
                       <<db.artifact_last_sync, db.artifact_last_error>>) =>
          pc = "fetched"]_vars

\* C30 as stated: the record is created once; afterwards only job status,
\* completion time, last-sync time and last-sync error are written, the
\* first two by the poller and the last two by the transfer phase; no
\* record is deleted.
C30_Original ==
  /\ CreatedOnce
  /\ [][db.exists =>
          LET WithoutProgress(row) ==
                  [row EXCEPT !.job_status = <<>>, !.completed_at = <<>>,
                              !.artifact_last_sync = <<>>,
                              !.artifact_last_error = ""]
          IN  WithoutProgress(db') = WithoutProgress(db)]_vars

\* C30 (amended): the same, except that the run command itself rewrites the
\* destination of the record once, right after the INSERT and before the
\* first poll, to the configured destination joined with the record id.
C30_OnlyProgressWritten ==
  /\ CreatedOnce
  /\ [][db.exists =>
          IF pc = "setdest"
            THEN \/ db' = db
                 \/ /\ db' = [db EXCEPT
                                !.artifact_dest = db.artifact_dest \o "/1"]
                    /\ db.job_status = S_SUBMITTED
                    /\ pc' = "squeue"
            ELSE LET Kept(row) ==
                       [row EXCEPT !.job_status = <<>>,
                                   !.completed_at = <<>>,
                                   !.artifact_last_sync = <<>>,
                                   !.artifact_last_error = ""]
                 IN  Kept(db') = Kept(db)]_vars

C30_Witness ==
  /\ cfg.cmd = "run"
  /\ pc = "done"
  /\ ret = "ok"
  /\ db.artifact_dest = "/dest/1"
  /\ db.completed_at # <<>>
  /\ db.artifact_last_sync # <<>>
  /\ db.created_at = <<StartTime>>

\* ------------------------------------------------------------------------
\* cmdRun: the resolution of a run parameter from the flag, the defaults,
\* the named profile and the run file
\* ------------------------------------------------------------------------

\* time.ParseDuration on the texts in use, in seconds; 0 stands for the
\* error it returns on a text that is no duration
ParseDuration(text) ==
  CASE text = "20s" -> 20
    [] text = "40s" -> 40
    [] text = "45s" -> 45
    [] text = "50s" -> 50
    [] OTHER -> 0

\* applyProfile and applyRunFile for one parameter: cur is the value so far,
\* v what the provider holds (<<>> for an empty string or a nil pointer).
\* A string is taken when the value so far is empty; the since-start flag
\* and the poll interval are taken unless the flag was given on the command
\* line, the poll interval through time.ParseDuration.
applyProfile(kind, cur, flagSet, v) ==
  CASE kind = "string" ->
         [val |-> IF cur = "" /\ v # <<>> THEN v[1] ELSE cur, err |-> FALSE]
    [] kind = "bool" ->
         [val |-> IF ~flagSet /\ v # <<>> THEN v[1] ELSE cur, err |-> FALSE]
    [] kind = "duration" ->
         IF ~flagSet /\ v # <<>>
           THEN IF ParseDuration(v[1]) = 0
                  THEN [val |-> cur, err |-> TRUE]
                  ELSE [val |-> ParseDuration(v[1]), err |-> FALSE]
           ELSE [val |-> cur, err |-> FALSE]

\* cmdRun: the flag value (or the flag's default), then the defaults of the
\* configuration, then the named profile, then the run file; an unparsable
\* poll interval ends the command
resolveParameter(a) ==
  LET flagSet == a.flag # <<>>
      start == IF flagSet
                 THEN IF a.kind = "duration" THEN ParseDuration(a.flag[1])
                      ELSE a.flag[1]
               ELSE CASE a.kind = "string" -> ""
                      [] a.kind = "bool" -> TRUE
                      [] a.kind = "duration" -> defaultPollInterval
      d == applyProfile(a.kind, start, flagSet, a.defaults)
      p == IF d.err THEN d
           ELSE applyProfile(a.kind, d.val, flagSet, a.profile)
  IN  IF p.err THEN p
      ELSE applyProfile(a.kind, p.val, flagSet, a.runFile)

ApplyResolve ==
  /\ pc = "resolve"
  /\ ~fnDone
  /\ fnDone' = TRUE
  /\ fnRet' = resolveParameter(fnArg)
  /\ UNCHANGED fnArg
  /\ UNCHANGED runVars
  /\ UNCHANGED cmdVars
  /\ UNCHANGED histVars
  /\ UNCHANGED fetchVars

\* a string parameter, the since-start flag and the poll interval, each
\* given or not by the flag, the run file, the named profile and the
\* defaults, with values that tell the providers apart
SpecResolve ==
  /\ FunctionOnly("resolve")
  /\ fnArg \in
       [kind : {"string"}, flag : {<<>>, <<"F">>}, runFile : {<<>>, <<"R">>},
        profile : {<<>>, <<"P">>}, defaults : {<<>>, <<"D">>}]
       \cup
       [kind : {"bool"}, flag : {<<>>, <<TRUE>>, <<FALSE>>},
        runFile : {<<>>, <<TRUE>>, <<FALSE>>},
        profile : {<<>>, <<TRUE>>, <<FALSE>>},
        defaults : {<<>>, <<TRUE>>, <<FALSE>>}]
       \cup
       [kind : {"duration"}, flag : {<<>>, <<"45s">>},
        runFile : {<<>>, <<"20s">>, <<"soon">>},
        profile : {<<>>, <<"40s">>, <<"soon">>},
        defaults : {<<>>, <<"50s">>, <<"soon">>}]
  /\ fnRet = [val |-> 0, err |-> FALSE]
  /\ [][ApplyResolve]_vars

\* ------------------------------------------------------------------------
\* Several commands on one record: a run that monitors the experiment and
\* two fetch commands.  Each store call is one UPDATE statement, executed
\* by the store as a whole; pc gives the position of every command.
\* lastResult holds the values the accepted UPDATEs last carried, column by
\* column.
\* ------------------------------------------------------------------------

\* monitorExperiment of the run: updateExperimentStatus(db, id, status, nil)
\* with the status just polled; a store error ends the run
StatusWrite ==
  /\ pc["run"] = "poll"
  /\ \E st \in {S_PENDING, S_RUNNING, S_COMPLETED, S_CANCELLED},
        ok \in BOOLEAN :
       /\ status' = st
       /\ IF ok
            THEN /\ db' = updateExperimentStatus(db, st, <<>>)
                 /\ lastResult' = [lastResult EXCEPT !.status = st]
                 /\ pc' = [pc EXCEPT !["run"] =
                             IF NamesActive(st) THEN "poll" ELSE "complete"]
            ELSE /\ pc' = [pc EXCEPT !["run"] = "done"]
                 /\ UNCHANGED <<db, lastResult>>
  /\ UNCHANGED <<ret, errKind, cfg, exp, sqCmd, saCmd, now>>
  /\ UNCHANGED <<lastOrigin, nFails, trace, termVals>>
  /\ UNCHANGED fnVars
  /\ UNCHANGED cmdVars
  /\ UNCHANGED fetchVars

\* monitorExperiment of the run: the second update of a terminal status,
\* with the completion time
CompletionWrite ==
  /\ pc["run"] = "complete"
  /\ \E ok \in BOOLEAN :
       IF ok
         THEN /\ db' = updateExperimentStatus(db, status, <<now>>)
              /\ lastResult' = [lastResult EXCEPT
                                  !.status = status,
                                  !.completed = FormatTime(now)]
              /\ pc' = [pc EXCEPT !["run"] = "sync"]
         ELSE /\ pc' = [pc EXCEPT !["run"] = "done"]
              /\ UNCHANGED <<db, lastResult>>
  /\ UNCHANGED <<ret, errKind, cfg, exp, status, sqCmd, saCmd, now>>
  /\ UNCHANGED <<lastOrigin, nFails, trace, termVals>>
  /\ UNCHANGED fnVars
  /\ UNCHANGED cmdVars
  /\ UNCHANGED fetchVars

\* monitorExperiment after the sync, or cmdFetch: recordArtifactSync with
\* the outcome of fetchArtifactSources, the time of a success or the error
SyncWrite ==
  /\ \E p \in DOMAIN pc, err \in {"", "rsync failed"}, ok \in BOOLEAN :
       /\ pc[p] = "sync"
       /\ pc' = [pc EXCEPT ![p] = "done"]
       /\ IF ok
            THEN /\ db' = recordArtifactSync(
                            db, IF err = "" THEN <<now>> ELSE <<>>, err)
                 /\ lastResult' = [lastResult EXCEPT
                                     !.sync = IF err = "" THEN FormatTime(now)
                                              ELSE <<>>,
                                     !.error = err]
            ELSE UNCHANGED <<db, lastResult>>
  /\ UNCHANGED <<ret, errKind, cfg, exp, status, sqCmd, saCmd, now>>
  /\ UNCHANGED <<lastOrigin, nFails, trace, termVals>>
  /\ UNCHANGED fnVars
  /\ UNCHANGED cmdVars
  /\ UNCHANGED fetchVars

\* time passes between the store calls of the commands
ClockTick ==
  /\ now < MaxNow
  /\ \E p \in DOMAIN pc : pc[p] # "done"
  /\ now' = Min(now + defaultPollInterval, MaxNow)
  /\ UNCHANGED <<pc, ret, errKind, cfg, exp, db, status, sqCmd, saCmd>>
  /\ UNCHANGED histVars
  /\ UNCHANGED fnVars
  /\ UNCHANGED cmdVars
  /\ UNCHANGED fetchVars

\* the record as cmdRun created it, the run about to poll and each fetch
\* about to record the outcome of its transfer
InitWriters ==
  /\ pc = [p \in {"run", "fetch1", "fetch2"} |->
             IF p = "run" THEN "poll" ELSE "sync"]
  /\ ret = "none"
  /\ errKind = "none"
  /\ cfg = [cmd |-> "none"]
  /\ db = [StoredRow EXCEPT !.job_status = S_SUBMITTED,
                            !.completed_at = <<>>]
  /\ exp = loadExperimentByID(db)
  /\ status = <<>>
  /\ sqCmd = [exit |-> 0, out |-> <<>>]
  /\ saCmd = [exit |-> 0, out |-> <<>>]
  /\ now = StartTime
  /\ lastResult = [status |-> S_SUBMITTED, completed |-> <<>>,
                   sync |-> <<>>, error |-> ""]
  /\ lastOrigin = "none"
  /\ nFails = 0
  /\ trace = <<>>
  /\ termVals = {}
  /\ fnArg = <<>>
  /\ fnDone = FALSE
  /\ fnRet = FALSE
  /\ NoFetch
  /\ NoSubmit

\* the three commands, their store calls in any order
SpecWriters ==
  /\ InitWriters
  /\ [][StatusWrite \/ CompletionWrite \/ SyncWrite \/ ClockTick]_vars

\* ---- C34 ---------------------------------------------------------------
\* C34: a remote listing that fails is the last remote command of the call:
\* the call ends there with that error, with no other listing, in no
\* strategy, and no transfer or dry-run listing for that source; a listing
\* is repeated for a source only after a listing that succeeded and
\* returned no file.
C34_FailedListingNotRetried ==
  /\ [](\A i \in 1..Len(listLog) :
          ~listLog[i].ok =>
            /\ i = Len(listLog)
            /\ pc = "fetched"
            /\ call.err = "remote find failed"
            /\ \A j \in 1..Len(rsyncLog) : rsyncLog[j].src # listLog[i].src
            /\ \A j \in 1..Len(dryLog) : dryLog[j].src # listLog[i].src)
  /\ [][(Len(listLog') > Len(listLog) /\ listLog # <<>>
           /\ listLog'[Len(listLog')].src = listLog[Len(listLog)].src) =>
          /\ listLog[Len(listLog)].ok
          /\ listLog[Len(listLog)].files = <<>>]_vars

C34_Witness ==
  /\ call.sinceStart
  /\ Len(listLog) = 3
  /\ listLog[1].ok /\ listLog[2].ok /\ ~listLog[3].ok
  /\ listLog[3].src = 1
  /\ listLog[3].newermt # <<>>
  /\ pc = "fetched"
  /\ rsyncLog = <<>>

\* ---- C35 ---------------------------------------------------------------
\* C35: the record never holds both a last-sync time and a last-sync error;
\* a write of the sync columns that records a failure leaves no time, and
\* one that records a success leaves the time of the sync and no error.
C35_SyncTimeXorError ==
  /\ [](~(db.artifact_last_sync # <<>> /\ db.artifact_last_error # ""))
  /\ [][(<<db'.artifact_last_sync, db'.artifact_last_error>> #
           <<db.artifact_last_sync, db.artifact_last_error>> /\ db.exists) =>
          IF call.err # ""
            THEN /\ db'.artifact_last_sync = <<>>
                 /\ db'.artifact_last_error = call.err
            ELSE /\ db'.artifact_last_sync = <<now>>
                 /\ db'.artifact_last_error = ""]_vars

C35_Witness ==
  /\ cfg.cmd = "fetch"
  /\ pc = "done"
  /\ db.artifact_remote = <<>>
  /\ db.artifact_last_sync = <<>>
  /\ db.artifact_last_error = "rsync failed"

\* ---- C39 ---------------------------------------------------------------
\* C39: with the since-start filter requested and no recorded creation
\* time, no remote listing, transfer or dry-run listing is ever issued, and
\* a call that reaches a source with a usable path ends with the error
\* about the missing start time.
C39_NoStartTimeNoListing ==
  (call.sinceStart /\ exp.CreatedAt = 0) =>
    /\ listLog = <<>>
    /\ rsyncLog = <<>>
    /\ dryLog = <<>>
    /\ pc \in {"fetch", "fetched"}
    /\ (pc = "fetched" /\ call.sources # <<>>) =>
         /\ call.idx = 1
         /\ call.err # ""
         /\ (Len(call.sources[1].Path) >= 1
               /\ Head(call.sources[1].Path) = "/") =>
              call.err = "no recorded start time"

C39_Witness ==
  /\ call.sinceStart
  /\ db.created_at = <<>>
  /\ exp.CreatedAt = 0
  /\ call.sources = <<ArtifactSource1, ArtifactSource2>>
  /\ pc = "fetched"
  /\ call.err = "no recorded start time"
  /\ listLog = <<>>

\* ---- C36 ---------------------------------------------------------------
\* C36 as stated: a sync over all sources in which nothing was found or
\* matched, so that rsync never ran, leaves the last-sync time set to the
\* time of the sync and the last-sync error empty.
C36_Original ==
  (SyncAttempted /\ call.err = "" /\ listLog # <<>> /\ rsyncLog = <<>>) =>
    /\ db.artifact_last_sync = FormatTime(now)
    /\ db.artifact_last_error = ""

\* C36 (amended): the same, when the store write that records the outcome
\* succeeds; when it fails the command returns the store error and the row
\* keeps the last-sync fields it had.  In both cases the empty sync itself is
\* no error: every source was listed, every listing or filter came out empty
\* and rsync was never invoked.
C36_EmptySyncIsSuccess ==
  /\ []((SyncAttempted /\ call.err = "" /\ listLog # <<>> /\ rsyncLog = <<>>) =>
          /\ call.idx = Len(call.sources) + 1
          /\ \A k \in 1..Len(call.sources) :
               \E i \in 1..Len(listLog) : listLog[i].src = k /\ listLog[i].ok
          /\ IF ret = "ok"
               THEN /\ db.artifact_last_sync = FormatTime(now)
                    /\ db.artifact_last_error = ""
               ELSE errKind = "db")
  /\ [][(pc = "fetched" /\ pc' = "done" /\ call.err = "" /\ rsyncLog = <<>>
           /\ ~call.dryRun /\ errKind' = "db") =>
          db' = db]_vars

C36_Witness ==
  /\ SyncAttempted
  /\ call.err = ""
  /\ call.idx = Len(call.sources) + 1
  /\ listLog # <<>>
  /\ rsyncLog = <<>>
  /\ ret = "ok"
  /\ db.artifact_last_sync = FormatTime(now)
  /\ db.artifact_last_error = ""

\* ---- C37 ---------------------------------------------------------------
\* C37: when a store update of the polling loop fails, monitorExperiment
\* returns the store error in that very step and the command is over: the
\* row is left as it was, nothing is queried, written, listed or transferred
\* afterwards, so no completion time is written by a later step and no
\* artifact sync is started.  The loop goes on only with the status stored.
C37_PersistFailureEndsRun ==
  /\ [](pc \in {"persist", "complete"} =>
          /\ db.completed_at = <<>>
          /\ call = NoCall
          /\ nSettle = 0
          /\ listLog = <<>> /\ rsyncLog = <<>> /\ dryLog = <<>>)
  /\ [][(pc \in {"persist", "complete"} /\ pc' # pc) =>
          IF pc' = "done"
            THEN /\ ret' = "err" /\ errKind' = "db"
                 /\ db' = db
                 /\ <<sqCmd', saCmd', status'>> = <<sqCmd, saCmd, status>>
                 /\ fetchVars' = fetchVars
            ELSE /\ db'.job_status = status
                 /\ ret' = ret]_vars
  /\ [][pc # "done"]_vars

C37_Witness ==
  /\ cfg.cmd = "run"
  /\ pc = "done"
  /\ ret = "err"
  /\ errKind = "db"
  /\ SyncConfigured
  /\ trace # <<>>
  /\ ~NamesActive(status)
  /\ exp.JobStatus = status
  /\ db.job_status # status
  /\ db.completed_at = <<>>
  /\ call = NoCall
  /\ nSettle = 0

\* ---- C38 ---------------------------------------------------------------
\* C38 as stated: a dry-run fetch changes the record only when it fails, and
\* a dry-run fetch of an existing record that has failed has put the failure
\* in the last-sync error and cleared the last-sync time.
C38_Original ==
  /\ [][(cfg.cmd = "fetch" /\ cfg.dryRun /\ db' # db) =>
          pc' = "done" /\ ret' = "err"]_vars
  /\ []((cfg.cmd = "fetch" /\ cfg.dryRun /\ pc = "done" /\ ret = "err"
           /\ db.exists) =>
          /\ db.artifact_last_sync = <<>>
          /\ db.artifact_last_error # "")

\* C38 (amended): a dry-run fetch writes the record in one case only: when
\* fetchArtifactSources has failed and the store update succeeds, the
\* last-sync error becomes that failure and the last-sync time is cleared,
\* nothing else changes.  A dry-run fetch that succeeds, one that fails before
\* fetchArtifactSources is called (relative --remote-path, no destination, no
\* source) and one whose store update fails leave the record as it was.
C38_DryRunRecord ==
  /\ [][(cfg.cmd = "fetch" /\ cfg.dryRun /\ db' # db) =>
          /\ pc = "fetched" /\ call.err # ""
          /\ pc' = "done" /\ ret' = "err" /\ errKind' = "sync"
          /\ db' = [db EXCEPT !.artifact_last_sync = <<>>,
                              !.artifact_last_error = call.err]]_vars
  /\ []((cfg.cmd = "fetch" /\ cfg.dryRun /\ pc = "done" /\ db.exists) =>
          /\ errKind \in {"none", "usage", "sync", "syncAndDb"}
          /\ errKind = "none" => ret = "ok" /\ call.err = ""
          /\ errKind = "usage" => ret = "err" /\ call = NoCall
          /\ errKind = "syncAndDb" => ret = "err" /\ call.err # ""
          /\ errKind = "sync" =>
               /\ ret = "err" /\ call.err # ""
               /\ db.artifact_last_sync = <<>>
               /\ db.artifact_last_error = call.err)

C38_Witness ==
  /\ cfg.cmd = "fetch"
  /\ cfg.dryRun
  /\ pc = "done"
  /\ errKind = "sync"
  /\ db.artifact_remote = <<>>
  /\ db.artifact_last_sync = <<>>
  /\ db.artifact_last_error = "remote find failed"
  /\ call.err = "remote find failed"

\* ---- C31 ---------------------------------------------------------------
\* C31: every directory rsync copies into is a base directory joined with
\* the id of the experiment, in a run and in a fetch alike.
C31_PerExperimentDestination ==
  \A i \in 1..Len(rsyncLog) :
     \E base \in {"/dest", "/other"} :
        rsyncLog[i].dest = JoinID(base, NewID)

\* ---- C33 ---------------------------------------------------------------
\* C33: the resolved value of a parameter is the value of the first
\* provider that gives one, in the order flag, run file, named profile,
\* defaults, and the built-in default when none does; the same for a string
\* parameter, for the since-start flag and for the poll interval.
C33_FlagFileProfileDefaults ==
  (fnDone /\ ~fnRet.err) =>
    LET given == IF fnArg.flag # <<>> THEN fnArg.flag
                 ELSE IF fnArg.runFile # <<>> THEN fnArg.runFile
                 ELSE IF fnArg.profile # <<>> THEN fnArg.profile
                 ELSE fnArg.defaults
    IN  CASE fnArg.kind = "string" ->
               fnRet.val = IF given = <<>> THEN "" ELSE given[1]
          [] fnArg.kind = "bool" ->
               fnRet.val = IF given = <<>> THEN TRUE ELSE given[1]
          [] fnArg.kind = "duration" ->
               fnRet.val = CASE given = <<>> -> defaultPollInterval
                             [] given = <<"45s">> -> 45
                             [] given = <<"20s">> -> 20
                             [] given = <<"40s">> -> 40
                             [] given = <<"50s">> -> 50
                             [] OTHER -> 0

\* ---- C32 ---------------------------------------------------------------
\* C32: with a run and two fetches writing the same record in any order, no
\* write is lost or torn: every column dealt with holds what the last
\* accepted UPDATE of that column carried; a status write of the run leaves
\* the last-sync time and error as they are; a sync write leaves status and
\* completion time as they are and sets time and error together, a time
\* with an empty error or no time with the error.
C32_NoLostOrTornWrite ==
  /\ [](/\ db.job_status = lastResult.status
        /\ db.completed_at = lastResult.completed
        /\ db.artifact_last_sync = lastResult.sync
        /\ db.artifact_last_error = lastResult.error
        /\ ~(db.artifact_last_sync # <<>> /\ db.artifact_last_error # ""))
  /\ [][(pc["run"] \in {"poll", "complete"} /\ pc'["run"] # "sync"
           /\ pc'["fetch1"] = pc["fetch1"] /\ pc'["fetch2"] = pc["fetch2"]) =>
          /\ db'.artifact_last_sync = db.artifact_last_sync
          /\ db'.artifact_last_error = db.artifact_last_error]_vars
  /\ [][(pc["run"] = "complete" /\ pc'["run"] = "sync") =>
          /\ db'.artifact_last_sync = db.artifact_last_sync
          /\ db'.artifact_last_error = db.artifact_last_error
          /\ db'.job_status = status
          /\ db'.completed_at = FormatTime(now)]_vars
  /\ [][(\E p \in DOMAIN pc : pc[p] = "sync" /\ pc'[p] = "done") =>
          /\ db'.job_status = db.job_status
          /\ db'.completed_at = db.completed_at
          /\ \/ db' = db
             \/ /\ db'.artifact_last_sync = FormatTime(now)
                /\ db'.artifact_last_error = ""
             \/ /\ db'.artifact_last_sync = <<>>
                /\ db'.artifact_last_error # ""]_vars

\* a fetch recorded a failure after the run's success, and the run's status
\* and completion time are still there
C32_Witness ==
  /\ pc["run"] = "done"
  /\ pc["fetch1"] = "done"
  /\ pc["fetch2"] = "sync"
  /\ db.job_status = S_CANCELLED
  /\ db.completed_at = FormatTime(StartTime)
  /\ db.artifact_last_sync = <<>>
  /\ db.artifact_last_error = "rsync failed"
  /\ now = MaxNow

====
